---- MODULE Spec2Model ----
(***************************************************************************)
(* A model of the konveyor test harness core: the label selector parser    *)
(* (pkg/targets/label_selector.go), the kantra target with its argument    *)
(* builder, input materialisation, constructor and Execute                 *)
(* (pkg/targets/kantra.go), the task polling of the hub backend and the    *)
(* result validation engine (pkg/validator).                               *)
(*                                                                         *)
(* Go strings whose characters matter (selectors, code snippets, file      *)
(* names, application references) are sequences of one-character strings;  *)
(* strings that are only compared for equality are TLA+ strings.           *)
(***************************************************************************)
EXTENDS Integers, Sequences, FiniteSets, TLC

VARIABLES
    pc,             \* "start" before the call, "returned" after it, "panicked" when it crashed
    op,             \* the function that was called ("" before the call)
    selector,       \* ParseLabelSelector: the argument
    labels,         \* ParseLabelSelector: the returned Labels
    analysis,       \* buildArgs: the config.AnalysisConfig argument
    inputPath,      \* buildArgs: argument
    outputDir,      \* buildArgs: argument
    mavenSettings,  \* buildArgs: argument
    args,           \* buildArgs: the returned argument list
    testDir,        \* ValidateFiles / comparer: the test directory
    targetType,     \* ValidateFiles: the backend name
    actual,         \* ValidateFiles: the actual rulesets
    expected,       \* ValidateFiles: the expected rulesets
    result,         \* ValidateFiles: the returned *ValidationResult
    err,            \* ValidateFiles: the returned error ("nil" or a message)
    vexpected,      \* compareViolation: the expected violation
    vactual,        \* compareViolation: the actual violation
    verrors,        \* compareViolation: the returned []ValidationError
    vfound,         \* compareViolation: the returned bool
    application,    \* prepareInput: the application reference
    fs,             \* the paths that exist in the file system
    git,            \* prepareInput: gitURL, gitRef and gitPath
    prepared,       \* prepareInput: the returned path and error, and the branch taken
    commands,       \* the commands started with ExecuteCommand, in order
    test,           \* Execute: the fields of the test definition not held above
    steps,          \* Execute: the steps performed so far, in order
    execution,      \* Execute: the returned *ExecutionResult and error
    cfg,            \* NewKantraTarget: the *config.KantraConfig argument
    executables,    \* the files that exist and can be executed
    target,         \* NewKantraTarget: the returned *KantraTarget and error, and its Name()
    task,           \* task polling: the state of the remote task
    poll,           \* task polling: the context, the observations and what is returned
    call,           \* comparer: the method called, its arguments and what it returned
    runs            \* concurrent Execute calls: each run's test, position and directories

vars == <<pc, op, selector, labels, analysis, inputPath, outputDir, mavenSettings, args,
          testDir, targetType, actual, expected, result, err,
          vexpected, vactual, verrors, vfound,
          application, fs, git, prepared, commands, test, steps, execution,
          cfg, executables, target, task, poll, call, runs>>

labelVars == <<selector, labels>>
argVars == <<analysis, inputPath, outputDir, mavenSettings, args>>
validateVars == <<testDir, targetType, actual, expected, result, err>>
violationVars == <<vexpected, vactual, verrors, vfound>>
inputVars == <<application, fs, git, prepared, commands>>
executeVars == <<test, steps, execution>>
targetVars == <<cfg, executables, target>>
pollVars == <<task, poll>>
restVars == <<call, runs>>
runVars == <<inputVars, executeVars, targetVars, pollVars, restVars>>

-----------------------------------------------------------------------------
(* Bounds of the model.                                                    *)

MaxSelectorLen == 6
MaxFlagValues == 1
MaxRuleSets == 3
MaxIncidents == 3
MaxRefLen == 4
MaxPolls == 4

\* the links of the expected and the actual violation of a comparison together
MaxLinks == 3

\* the length of the actual list of a tag, unmatched or skipped comparison
MaxStrings == 2

\* the Execute calls that run concurrently
MaxRuns == 2

-----------------------------------------------------------------------------
(* Go's strings package, on sequences of characters.                       *)

\* unicode.IsSpace, restricted to the characters of the model's alphabets
Whitespace == {" ", "\t"}

RECURSIVE TrimLeft(_)
TrimLeft(s) ==
    IF s # <<>> /\ Head(s) \in Whitespace THEN TrimLeft(Tail(s)) ELSE s

RECURSIVE TrimRight(_)
TrimRight(s) ==
    IF s # <<>> /\ s[Len(s)] \in Whitespace
    THEN TrimRight(SubSeq(s, 1, Len(s) - 1))
    ELSE s

\* strings.TrimSpace
TrimSpace(s) == TrimRight(TrimLeft(s))

\* strings.HasPrefix
HasPrefix(s, prefix) ==
    Len(s) >= Len(prefix) /\ SubSeq(s, 1, Len(prefix)) = prefix

\* strings.TrimPrefix
TrimPrefix(s, prefix) ==
    IF HasPrefix(s, prefix) THEN SubSeq(s, Len(prefix) + 1, Len(s)) ELSE s

\* the first position from i on at which substr occurs in s; 0 when there is none
RECURSIVE IndexFrom(_, _, _)
IndexFrom(s, substr, i) ==
    IF i + Len(substr) - 1 > Len(s) THEN 0
    ELSE IF SubSeq(s, i, i + Len(substr) - 1) = substr THEN i
    ELSE IndexFrom(s, substr, i + 1)

\* strings.Index, 1-based; 0 when substr does not occur in s
Index(s, substr) == IndexFrom(s, substr, 1)

\* strings.Contains
Contains(s, substr) ==
    \E i \in 1..(Len(s) - Len(substr) + 1) : SubSeq(s, i, i + Len(substr) - 1) = substr

\* strings.Split for a non-empty separator: cut at each leftmost occurrence
RECURSIVE Split(_, _)
Split(s, sep) ==
    LET i == Index(s, sep)
    IN  IF i = 0
        THEN <<s>>
        ELSE <<SubSeq(s, 1, i - 1)>> \o Split(SubSeq(s, i + Len(sep), Len(s)), sep)

-----------------------------------------------------------------------------
(* pkg/targets/label_selector.go                                           *)

\* the characters selectors are built from
SelectorAlphabet == {" ", "\t", "!", "|", "a", "b"}

\* every string over alphabet of length at most n
StringsUpTo(alphabet, n) == UNION {[1..k -> alphabet] : k \in 0..n}

\* a Go slice: nil or not, and its elements
NilSlice == [isNil |-> TRUE, elems |-> <<>>]
EmptySlice == [isNil |-> FALSE, elems |-> <<>>]
AppendSlice(sl, x) == [isNil |-> FALSE, elems |-> Append(sl.elems, x)]

\* Labels{Included: []string{}, Excluded: []string{}}
NewLabels == [Included |-> EmptySlice, Excluded |-> EmptySlice]

\* ParsePart without the second TrimSpace, after the "!" is removed
ParsePartKeepsSpace(ls, rawPart) ==
    LET part == TrimSpace(rawPart)
    IN  IF part = <<>>
        THEN ls
        ELSE IF HasPrefix(part, <<"!">>)
             THEN LET excluded == TrimPrefix(part, <<"!">>)
                  IN  IF excluded # <<>>
                      THEN [ls EXCEPT !.Excluded = AppendSlice(@, excluded)]
                      ELSE ls
             ELSE [ls EXCEPT !.Included = AppendSlice(@, part)]

\* the body of the loop over the parts
ParsePart(ls, rawPart) ==
    LET part == TrimSpace(rawPart)
    IN  IF part = <<>>
        THEN ls
        ELSE IF HasPrefix(part, <<"!">>)
             THEN LET excluded == TrimSpace(TrimPrefix(part, <<"!">>))
                  IN  IF excluded # <<>>
                      THEN [ls EXCEPT !.Excluded = AppendSlice(@, excluded)]
                      ELSE ls
             ELSE [ls EXCEPT !.Included = AppendSlice(@, part)]

RECURSIVE ParseParts(_, _)
ParseParts(ls, parts) ==
    IF parts = <<>> THEN ls ELSE ParseParts(ParsePart(ls, Head(parts)), Tail(parts))

ParseLabelSelector(s) ==
    IF s = <<>> THEN NewLabels ELSE ParseParts(NewLabels, Split(s, <<"|", "|">>))

-----------------------------------------------------------------------------
(* pkg/targets/kantra.go: buildArgs                                        *)

\* provider.SourceOnlyAnalysisMode and provider.FullAnalysisMode
SourceOnlyAnalysisMode == "source-only"
FullAnalysisMode == "full"

\* the values of AnalysisConfig.AnalysisMode: unset, or one of the two modes
AnalysisModes == {"", SourceOnlyAnalysisMode, FullAnalysisMode}

\* selector expressions, technology names and paths: none of them is a flag
SelectorValues == {"", "sel"}
FlagValues == {"v1", "v2"}
SettingsValues == {"", "/m2/settings.xml", "/etc/settings.xml"}
ContextLineValues == {0, 10}

\* every sequence over S of length at most n
SeqsUpTo(S, n) == UNION {[1..k -> S] : k \in 0..n}

AnalysisConfigs ==
    [ContextLines : ContextLineValues,
     LabelSelector : SelectorValues,
     IncidentSelector : SelectorValues,
     Target : SeqsUpTo(FlagValues, MaxFlagValues),
     Source : SeqsUpTo(FlagValues, MaxFlagValues),
     Rules : SeqsUpTo(FlagValues, MaxFlagValues),
     AnalysisMode : AnalysisModes]

\* for _, v := range values { args = append(args, flag, v) }
RECURSIVE AppendEach(_, _, _)
AppendEach(as, flag, values) ==
    IF values = <<>>
    THEN as
    ELSE AppendEach(as \o <<flag, Head(values)>>, flag, Tail(values))

\* MavenSettingsArgs without the test for the empty value
MavenSettingsArgsAlways(settings) == <<"--maven-settings", settings>>

\* if mavenSettings != "" { args = append(args, "--maven-settings", mavenSettings) }
MavenSettingsArgs(settings) ==
    IF settings # "" THEN <<"--maven-settings", settings>> ELSE <<>>

\* switch analysis.AnalysisMode: no default case
ModeArgs(mode) ==
    IF mode = SourceOnlyAnalysisMode THEN <<"--mode", "source-only">>
    ELSE IF mode = FullAnalysisMode THEN <<"--mode", "full">>
    ELSE <<>>

buildArgs(a, input, output, settings) ==
    LET a0 == <<"analyze", "--context-lines", ToString(a.ContextLines)>>
        a1 == a0 \o <<"--input", input>>
        a2 == a1 \o <<"--output", output>>
        a3 == IF a.LabelSelector # ""
              THEN a2 \o <<"--label-selector", a.LabelSelector>> ELSE a2
        a4 == IF a.IncidentSelector # ""
              THEN a3 \o <<"--incident-selector", a.IncidentSelector>> ELSE a3
        a5 == a4 \o MavenSettingsArgs(settings)
        a6 == AppendEach(a5, "-t", a.Target)
        a7 == AppendEach(a6, "-s", a.Source)
        a8 == AppendEach(a7, "--rules", a.Rules)
        a9 == a8 \o ModeArgs(a.AnalysisMode)
    IN  a9 \o <<"--run-local=false">> \o <<"--overwrite">>

-----------------------------------------------------------------------------
(* The konveyor output model (analyzer-lsp output/v1/konveyor) as the      *)
(* validator reads it.                                                     *)

\* the nil pointer, and the pointers of the model's heap: two addresses
\* may hold equal values
Nil == "nil"
IntPtrs == {"i1", "i2", "i3"}
CategoryPtrs == {"c1", "c2", "c3"}

\* *p for an *int (Effort, LineNumber)
IntAt(p) == IF p = "i3" THEN 20 ELSE 10

\* *p for a *Category
CategoryAt(p) == IF p = "c3" THEN "optional" ELSE "mandatory"

\* reflect.DeepEqual on two pointers: both nil, or both set and equal pointees
DeepEqualIntPtr(p, q) ==
    IF p = Nil \/ q = Nil THEN p = q ELSE IntAt(p) = IntAt(q)

DeepEqualCategoryPtr(p, q) ==
    IF p = Nil \/ q = Nil THEN p = q ELSE CategoryAt(p) = CategoryAt(q)

\* a uri.URI: the empty string, or a file URI with its path
EmptyURI == [scheme |-> "", path |-> <<>>]
FileURI(path) == [scheme |-> "file", path |-> path]

\* string(u) == ""
IsEmptyURI(u) == u.scheme = "" /\ u.path = <<>>

\* uri.URI.Filename panics unless the URI parses as a file URI
FilenamePanics(u) == u.scheme # "file"
Filename(u) == u.path

\* the zero konveyor.Violation, which a map lookup of a missing key yields
ZeroViolation ==
    [Description |-> "", Category |-> Nil, Labels |-> <<>>,
     Incidents |-> <<>>, Links |-> <<>>, Effort |-> Nil]

\* m[k] for a Go map of violations
LookupViolation(m, k) == IF k \in DOMAIN m THEN m[k] ELSE ZeroViolation

\* m[k] for a Go map of strings
LookupString(m, k) == IF k \in DOMAIN m THEN m[k] ELSE ""

\* the empty (or nil) Go map
EmptyMap == [k \in {} |-> ""]

\* reflect.DeepEqual on two incidents
DeepEqualIncident(i, j) ==
    /\ i.URI = j.URI
    /\ i.Message = j.Message
    /\ i.CodeSnip = j.CodeSnip
    /\ DeepEqualIntPtr(i.LineNumber, j.LineNumber)
    /\ i.Variables = j.Variables

\* reflect.DeepEqual on two violations
DeepEqualViolation(v, w) ==
    /\ v.Description = w.Description
    /\ DeepEqualCategoryPtr(v.Category, w.Category)
    /\ v.Labels = w.Labels
    /\ Len(v.Incidents) = Len(w.Incidents)
    /\ \A n \in 1..Len(v.Incidents) : DeepEqualIncident(v.Incidents[n], w.Incidents[n])
    /\ v.Links = w.Links
    /\ DeepEqualIntPtr(v.Effort, w.Effort)

\* reflect.DeepEqual on two map[string]konveyor.Violation
DeepEqualViolations(m, n) ==
    /\ DOMAIN m = DOMAIN n
    /\ \A k \in DOMAIN m : DeepEqualViolation(m[k], n[k])

\* maps.Equal on two map[string]string
MapsEqual(m, n) ==
    /\ DOMAIN m = DOMAIN n
    /\ \A k \in DOMAIN m : m[k] = n[k]

-----------------------------------------------------------------------------
(* path/filepath on clean slash-separated paths.                           *)

Slash == <<"/">>
SourceDir == <<"s", "o", "u", "r", "c", "e">>

\* filepath.IsAbs
IsAbs(path) == path # <<>> /\ Head(path) = "/"

\* the elements of a clean path
Elements(path) ==
    LET rest == IF IsAbs(path) THEN Tail(path) ELSE path
    IN  IF rest = <<>> THEN <<>> ELSE Split(rest, Slash)

\* strings.Join(elems, "/")
RECURSIVE JoinElements(_)
JoinElements(elems) ==
    IF elems = <<>> THEN <<>>
    ELSE IF Len(elems) = 1 THEN Head(elems)
    ELSE Head(elems) \o Slash \o JoinElements(Tail(elems))

\* filepath.Join(dir, name) for a clean dir: an empty dir is ignored
Join(dir, name) ==
    IF dir = <<>> THEN name
    ELSE IF dir = Slash THEN dir \o name
    ELSE dir \o Slash \o name

\* the number of leading elements two element lists share
RECURSIVE CommonPrefix(_, _)
CommonPrefix(b, t) ==
    IF b # <<>> /\ t # <<>> /\ Head(b) = Head(t)
    THEN 1 + CommonPrefix(Tail(b), Tail(t))
    ELSE 0

\* filepath.Rel(base, targ): an error when only one of the two is absolute
Rel(base, targ) ==
    IF base = targ THEN [err |-> FALSE, path |-> <<".">>]
    ELSE IF IsAbs(base) # IsAbs(targ) THEN [err |-> TRUE, path |-> <<>>]
    ELSE LET b == Elements(base)
             t == Elements(targ)
             c == CommonPrefix(b, t)
             up == [n \in 1..(Len(b) - c) |-> <<".", ".">>]
         IN  [err |-> FALSE,
              path |-> JoinElements(up \o SubSeq(t, c + 1, Len(t)))]

-----------------------------------------------------------------------------
(* pkg/targets/util.go and pkg/targets/kantra.go: prepareInput             *)

\* a sequence of characters as a string of the argument list
RECURSIVE GoString(_)
GoString(chars) == IF chars = <<>> THEN "" ELSE Head(chars) \o GoString(Tail(chars))

\* strings.ToLower on the letters of the model
UpperCase == <<"A", "E", "J", "R", "W">>
LowerCase == <<"a", "e", "j", "r", "w">>
ToLowerChar(c) ==
    IF \E n \in 1..Len(UpperCase) : UpperCase[n] = c
    THEN LowerCase[CHOOSE n \in 1..Len(UpperCase) : UpperCase[n] = c]
    ELSE c
ToLower(s) == [n \in 1..Len(s) |-> ToLowerChar(s[n])]

\* filepath.Ext: from the last dot of the last path element on
RECURSIVE ExtFrom(_, _)
ExtFrom(path, i) ==
    IF i < 1 \/ path[i] = "/" THEN <<>>
    ELSE IF path[i] = "." THEN SubSeq(path, i, Len(path))
    ELSE ExtFrom(path, i - 1)
Ext(path) == ExtFrom(path, Len(path))

\* the extensions of binary artifacts
JarExt == <<".", "j", "a", "r">>
WarExt == <<".", "w", "a", "r">>
EarExt == <<".", "e", "a", "r">>

\* IsBinaryFile without the strings.ToLower
IsBinaryFileCaseSensitive(path) == Ext(path) \in {JarExt, WarExt, EarExt}

\* IsBinaryFile
IsBinaryFile(path) == ToLower(Ext(path)) \in {JarExt, WarExt, EarExt}

\* the prefixes prepareInput looks for
HttpPrefix == <<"h", "t", "t", "p", ":", "/", "/">>
HttpsPrefix == <<"h", "t", "t", "p", "s", ":", "/", "/">>
GitAtPrefix == <<"g", "i", "t", "@">>
BinaryPrefix == <<"b", "i", "n", "a", "r", "y", ":">>

\* isGitURL
isGitURL(app) ==
    \/ HasPrefix(app, HttpPrefix)
    \/ HasPrefix(app, HttpsPrefix)
    \/ HasPrefix(app, GitAtPrefix)

\* strings.Split instead of strings.SplitN: cut at every occurrence of sep
SplitAll(s, sep) == Split(s, sep)

\* strings.SplitN(s, sep, 2): cut at the first occurrence of sep, if any
SplitN2(s, sep) ==
    IF Index(s, sep) = 0 THEN <<s>>
    ELSE <<SubSeq(s, 1, Index(s, sep) - 1), SubSeq(s, Index(s, sep) + Len(sep), Len(s))>>

\* gitRef and gitPath from the text after "#"
RefAndPath(url, rest) ==
    [url |-> url,
     ref |-> SplitN2(rest, Slash)[1],
     path |-> IF Len(SplitN2(rest, Slash)) > 1 THEN SplitN2(rest, Slash)[2] ELSE <<>>]

\* gitURL, gitRef, gitPath: git_url#branch/path/to/subdir
ParseGitReference(app) ==
    IF Contains(app, <<"#">>)
    THEN RefAndPath(SplitN2(app, <<"#">>)[1], SplitN2(app, <<"#">>)[2])
    ELSE [url |-> app, ref |-> <<>>, path |-> <<>>]
NoGitReference == [url |-> <<>>, ref |-> <<>>, path |-> <<>>]

\* filepath.Clean on the elements of an absolute path
RECURSIVE CleanElements(_, _)
CleanElements(elems, kept) ==
    IF elems = <<>> THEN kept
    ELSE IF Head(elems) = <<>> \/ Head(elems) = <<".">>
         THEN CleanElements(Tail(elems), kept)
    ELSE IF Head(elems) = <<".", ".">>
         THEN CleanElements(Tail(elems),
                            IF kept = <<>> THEN kept ELSE SubSeq(kept, 1, Len(kept) - 1))
    ELSE CleanElements(Tail(elems), Append(kept, Head(elems)))

\* filepath.Clean of an absolute path
Clean(path) == Slash \o JoinElements(CleanElements(Elements(path), <<>>))

\* filepath.Join(dir, name) for an absolute dir
FilepathJoin(dir, name) ==
    IF name = <<>> THEN Clean(dir) ELSE Clean(dir \o Slash \o name)

\* os.Stat(path) succeeds: the absolute path exists
Stat(fsys, path) == Clean(path) \in fsys

\* what prepareInput returns, the branch it took, the commands it started
\* and the file system it leaves
Prepared(kind, path, error, parsed, started, fsys) ==
    [kind |-> kind, path |-> path, err |-> error, git |-> parsed,
     commands |-> started, fs |-> fsys]

\* prepareBinary
prepareBinary(binaryPath, dir, fsys) ==
    IF IsAbs(binaryPath)
    THEN IF ~Stat(fsys, binaryPath)
         THEN Prepared("binary", <<>>, "binary file not found", NoGitReference, <<>>, fsys)
         ELSE Prepared("binary", binaryPath, Nil, NoGitReference, <<>>, fsys)
    ELSE IF ~Stat(fsys, FilepathJoin(dir, binaryPath))
         THEN Prepared("binary", <<>>, "binary file not found at", NoGitReference, <<>>, fsys)
         ELSE Prepared("binary", FilepathJoin(dir, binaryPath), Nil, NoGitReference, <<>>, fsys)

\* cloneDir := filepath.Join(workDir, "source"), made absolute
CloneDir(workDir) == FilepathJoin(workDir, SourceDir)

\* absInputDir
InputDir(workDir, parsed) ==
    IF parsed.path # <<>> THEN FilepathJoin(CloneDir(workDir), parsed.path)
    ELSE CloneDir(workDir)

\* gitArgs
GitArgs(workDir, parsed) ==
    IF parsed.ref # <<>>
    THEN <<"clone", "--depth", "1", "--branch", GoString(parsed.ref),
           GoString(parsed.url), GoString(CloneDir(workDir))>>
    ELSE <<"clone", "--depth", "1", GoString(parsed.url), GoString(CloneDir(workDir))>>

\* ExecuteCommand(ctx, "git", gitArgs, ".", ...)
GitClone(workDir, parsed) == <<[name |-> "git", args |-> GitArgs(workDir, parsed)]>>

\* the file system after a clone that succeeded: the clone folder, and the
\* subpath when the repository holds it
AfterClone(workDir, parsed, fsys, clone) ==
    fsys \cup {CloneDir(workDir)}
         \cup (IF clone.hasPath THEN {InputDir(workDir, parsed)} ELSE {})

\* prepareInput from the clone on
cloneRepository(workDir, parsed, fsys, clone) ==
    IF ~clone.ok
    THEN Prepared("git", <<>>, "git clone failed", parsed, GitClone(workDir, parsed), fsys)
    ELSE IF parsed.path # <<>>
            /\ ~Stat(AfterClone(workDir, parsed, fsys, clone), InputDir(workDir, parsed))
    THEN Prepared("git", <<>>, "specified path does not exist in repository", parsed,
                  GitClone(workDir, parsed), AfterClone(workDir, parsed, fsys, clone))
    ELSE Prepared("git", InputDir(workDir, parsed), Nil, parsed,
                  GitClone(workDir, parsed), AfterClone(workDir, parsed, fsys, clone))

\* prepareInput for a git reference, once parsed
prepareGit(workDir, parsed, fsys, clone) ==
    IF Stat(fsys, InputDir(workDir, parsed))
    THEN Prepared("git", InputDir(workDir, parsed), Nil, parsed, <<>>, fsys)
    ELSE cloneRepository(workDir, parsed, fsys, clone)

\* prepareInput; clone is what a git clone does when one is started
prepareInput(app, workDir, fsys, clone) ==
    IF IsBinaryFile(app) THEN prepareBinary(app, workDir, fsys)
    ELSE IF ~isGitURL(app)
         THEN IF HasPrefix(app, BinaryPrefix)
              THEN Prepared("legacy", SubSeq(app, 8, Len(app)), Nil, NoGitReference, <<>>, fsys)
              ELSE Prepared("local", app, Nil, NoGitReference, <<>>, fsys)
    ELSE prepareGit(workDir, ParseGitReference(app), fsys, clone)

-----------------------------------------------------------------------------
(* The directories, backend names and incidents of the model.              *)

\* the test directory: unset, or an absolute directory
TestDirs == {<<>>, <<"/", "t">>}

\* the backend names: the five getComparer knows, and the empty name Validate passes
TargetTypes == {"", "kantra", "tackle-hub", "tackle-ui", "kai-rpc", "vscode"}

\* a file under <testDir>/source, as the fixtures name it
UnderSource(file) == FileURI(Join(Join(<<"/", "t">>, SourceDir), file))

\* a file of the source tree as a backend that mounts it at /m names it
Mounted(file) == FileURI(Join(<<"/", "m">>, file))

BaseIncident ==
    [URI |-> UnderSource(<<"a">>), Message |-> "m1", CodeSnip |-> <<"x">>,
     LineNumber |-> Nil, Variables |-> "nil"]

\* the incidents that differ from BaseIncident in at most one field
IncidentPool ==
    {BaseIncident}
    \cup {[BaseIncident EXCEPT !.URI = u] :
            u \in {EmptyURI, Mounted(<<"a">>), Mounted(<<"b">>)}}
    \cup {[BaseIncident EXCEPT !.CodeSnip = c] : c \in {<<>>, <<" ", "x">>, <<"y">>}}
    \cup {[BaseIncident EXCEPT !.Message = "m2"]}
    \cup {[BaseIncident EXCEPT !.LineNumber = l] : l \in {"i1", "i2"}}
    \cup {[BaseIncident EXCEPT !.Variables = "v1"]}

-----------------------------------------------------------------------------
(* pkg/validator: the comparers.                                           *)

\* a fmt.Sprintf message: its format string and its arguments
Msg(format, arguments) == [format |-> format, args |-> arguments]
NoMsg == Msg("", <<>>)

ValidationError(path, message, exp, act) ==
    [Path |-> path, Message |-> message, Expected |-> exp, Actual |-> act]

findExpectedString(e, as) == \E n \in 1..Len(as) : e = as[n]

\* the result of a compareX that returns (*ValidationError, bool)
NoError == [ok |-> FALSE, err |-> ValidationError("", NoMsg, Nil, Nil)]
AnError(message, exp) == [ok |-> TRUE, err |-> ValidationError("", message, exp, Nil)]

compareTag(e, as) ==
    IF findExpectedString(e, as) THEN NoError
    ELSE AnError(Msg("Did not find expected tag: %s", <<e>>), e)

compareErrors(e, a) ==
    IF e # a THEN AnError(Msg("Did not find expected error: %s", <<e>>), e)
    ELSE NoError

compareUnmatched(e, as) ==
    IF findExpectedString(e, as) THEN NoError
    ELSE AnError(Msg("Did not find expected unmatched rule: %s", <<e>>), e)

compareSkipped(e, as) ==
    IF findExpectedString(e, as) THEN NoError
    ELSE AnError(Msg("Did not find expected skipped rule: %s", <<e>>), e)

\* the category and effort checks: the two pointers are compared
CategoryErrors(e, a) ==
    IF e.Category # a.Category
    THEN <<ValidationError("", Msg("Did not find expected category: %v", <<e.Category>>), e, Nil)>>
    ELSE <<>>

EffortErrors(e, a) ==
    IF e.Effort # a.Effort
    THEN <<ValidationError("", Msg("Did not find expected effort: %v", <<e.Effort>>), e, Nil)>>
    ELSE <<>>

\* l.Title == al.Title && l.URL == al.Title
LinkFound(l, als) ==
    \E n \in 1..Len(als) : l.Title = als[n].Title /\ l.URL = als[n].Title

RECURSIVE LinkErrors(_, _, _)
LinkErrors(e, ls, als) ==
    IF ls = <<>> THEN <<>>
    ELSE (IF LinkFound(Head(ls), als) THEN <<>>
          ELSE <<ValidationError("", Msg("Did not find expected links: %v", <<Head(ls)>>), e, Nil)>>)
         \o LinkErrors(e, Tail(ls), als)

RECURSIVE LabelErrors(_, _, _)
LabelErrors(e, ls, als) ==
    IF ls = <<>> THEN <<>>
    ELSE (IF findExpectedString(Head(ls), als) THEN <<>>
          ELSE <<ValidationError("", Msg("Did not find expected label: %v", <<Head(ls)>>), e, Nil)>>)
         \o LabelErrors(e, Tail(ls), als)

\* the checks both comparers make after the path check
IncidentRest(i, ai) ==
    IF i.Message # ai.Message THEN "continue"
    ELSE IF i.LineNumber # ai.LineNumber THEN "continue"
    ELSE IF i.Variables # ai.Variables THEN "continue"
    ELSE "found"

\* the path check: the expected file, relative to <testDir>/source, must occur
\* in the actual file name
IncidentPath(td, i, ai) ==
    IF FilenamePanics(i.URI) THEN "panic"
    ELSE LET pathToTest == Rel(Join(td, SourceDir), Filename(i.URI))
         IN  IF pathToTest.err THEN "break"
             ELSE IF FilenamePanics(ai.URI) THEN "panic"
             ELSE IF ~Contains(Filename(ai.URI), pathToTest.path) THEN "continue"
             ELSE IncidentRest(i, ai)

\* kantraIncidentStep with the code snippets compared as they are
kantraIncidentStepUntrimmed(td, i, ai) ==
    IF i.CodeSnip # ai.CodeSnip THEN "continue"
    ELSE IF IsEmptyURI(i.URI) \/ IsEmptyURI(ai.URI)
         THEN IF i.URI # ai.URI THEN "continue" ELSE IncidentRest(i, ai)
         ELSE IncidentPath(td, i, ai)

\* one pass of kantra's loop over the actual incidents
kantraIncidentStep(td, i, ai) ==
    IF TrimSpace(i.CodeSnip) # TrimSpace(ai.CodeSnip) THEN "continue"
    ELSE IF IsEmptyURI(i.URI) \/ IsEmptyURI(ai.URI)
         THEN IF i.URI # ai.URI THEN "continue" ELSE IncidentRest(i, ai)
         ELSE IncidentPath(td, i, ai)

\* one pass of tackle2Hub's loop over the actual incidents
tackle2HubIncidentStep(td, i, ai) == IncidentPath(td, i, ai)

IncidentStep(cmp, td, i, ai) ==
    IF cmp = "tackle2Hub" THEN tackle2HubIncidentStep(td, i, ai)
    ELSE kantraIncidentStep(td, i, ai)

\* IncidentStep tabulated over the model's comparers, directories and incidents
StepTable ==
    [cmp \in {"kantra", "tackle2Hub"}, td \in TestDirs |->
        [i \in IncidentPool |-> [ai \in IncidentPool |-> IncidentStep(cmp, td, i, ai)]]]

\* IncidentLoop with found assigned on every pass, so that the last actual
\* incident decides
RECURSIVE IncidentLoopLastWins(_, _, _, _, _)
IncidentLoopLastWins(cmp, td, i, ais, found) ==
    IF ais = <<>> THEN (IF found THEN "found" ELSE "missing")
    ELSE LET step == StepTable[cmp, td][i][Head(ais)]
         IN  IF step = "panic" THEN "panic"
             ELSE IF step = "break" THEN (IF found THEN "found" ELSE "missing")
             ELSE IncidentLoopLastWins(cmp, td, i, Tail(ais), step = "found")

\* the loop over the actual incidents for one expected incident:
\* "found", "missing" or "panic"
RECURSIVE IncidentLoop(_, _, _, _, _)
IncidentLoop(cmp, td, i, ais, found) ==
    IF ais = <<>> THEN (IF found THEN "found" ELSE "missing")
    ELSE LET step == StepTable[cmp, td][i][Head(ais)]
         IN  IF step = "panic" THEN "panic"
             ELSE IF step = "break" THEN (IF found THEN "found" ELSE "missing")
             ELSE IncidentLoop(cmp, td, i, Tail(ais), found \/ step = "found")

\* IncidentOutcomes with every actual incident consumed by the search that
\* went through it: the n-th search starts at the n-th actual incident
IncidentOutcomesConsuming(cmp, td, e, a) ==
    [n \in 1..Len(e.Incidents) |->
        IncidentLoop(cmp, td, e.Incidents[n],
                     SubSeq(a.Incidents, n, Len(a.Incidents)), FALSE)]

\* the outcome of the search for each expected incident, in order
IncidentOutcomes(cmp, td, e, a) ==
    [n \in 1..Len(e.Incidents) |-> IncidentLoop(cmp, td, e.Incidents[n], a.Incidents, FALSE)]

\* a call of Filename panicked during one of the searches
IncidentsPanic(outcomes) == \E n \in 1..Len(outcomes) : outcomes[n] = "panic"

\* the expected incidents no actual incident satisfies, in order
RECURSIVE SelectMissing(_, _)
SelectMissing(is, outcomes) ==
    IF is = <<>> THEN <<>>
    ELSE (IF Head(outcomes) = "missing" THEN <<Head(is)>> ELSE <<>>)
         \o SelectMissing(Tail(is), Tail(outcomes))

missingIncidents(cmp, td, e, a) ==
    SelectMissing(e.Incidents, IncidentOutcomes(cmp, td, e, a))

\* the URIs of the missing incidents that have one
RECURSIVE MissingURIs(_)
MissingURIs(is) ==
    IF is = <<>> THEN <<>>
    ELSE (IF ~IsEmptyURI(Head(is).URI) THEN <<Head(is).URI>> ELSE <<>>)
         \o MissingURIs(Tail(is))

\* kantra: one consolidated error for all the missing incidents
kantraIncidentErrors(e, a, missing) ==
        IF Len(missing) > 0
        THEN <<ValidationError("",
                 Msg("Missing %d incident(s)", <<Len(missing), MissingURIs(missing)>>),
                 Msg("%d incidents", <<Len(e.Incidents)>>),
                 Msg("%d incidents (missing %d)", <<Len(a.Incidents), Len(missing)>>))>>
        ELSE <<>>

\* tackle2Hub: one error for each missing incident
RECURSIVE tackle2HubEachMissing(_, _)
tackle2HubEachMissing(e, missing) ==
    IF missing = <<>> THEN <<>>
    ELSE <<ValidationError("", Msg("Did not find expected incident: %v", <<Head(missing)>>), e, Nil)>>
         \o tackle2HubEachMissing(e, Tail(missing))

\* Category, Effort, Links and Labels: the same code in both comparers
FieldErrors(e, a) ==
    CategoryErrors(e, a) \o EffortErrors(e, a)
    \o LinkErrors(e, e.Links, a.Links)
    \o LabelErrors(e, e.Labels, a.Labels)

\* what compareViolation returns: ([]ValidationError, bool), or a panic
Compared(validationError) ==
    [panic |-> FALSE, errs |-> validationError, ok |-> Len(validationError) # 0]
Panicked == [panic |-> TRUE, errs |-> <<>>, ok |-> FALSE]

\* (*kantra).compareViolation, given the outcomes of its incident searches
kantraReturn(e, a, outcomes) ==
    IF IncidentsPanic(outcomes) THEN Panicked
    ELSE Compared(FieldErrors(e, a)
                  \o kantraIncidentErrors(e, a, SelectMissing(e.Incidents, outcomes)))

\* (*kantra).compareViolation
kantraCompareViolation(td, e, a) ==
    kantraReturn(e, a, IncidentOutcomes("kantra", td, e, a))

\* (*tackle2Hub).compareViolation, given the outcomes of its incident searches
tackle2HubReturn(e, a, outcomes) ==
    IF IncidentsPanic(outcomes) THEN Panicked
    ELSE Compared(FieldErrors(e, a)
                  \o tackle2HubEachMissing(e, SelectMissing(e.Incidents, outcomes)))

\* (*tackle2Hub).compareViolation
tackle2HubCompareViolation(td, e, a) ==
    tackle2HubReturn(e, a, IncidentOutcomes("tackle2Hub", td, e, a))

\* comparer.compareViolation: tackle2Hub overrides the method of the embedded kantra
compareViolation(cmp, td, e, a) ==
    IF cmp = "tackle2Hub" THEN tackle2HubCompareViolation(td, e, a)
    ELSE kantraCompareViolation(td, e, a)

\* getComparer with the tackle2Hub comparer for "kai-rpc" too
getComparerRpcHub(tt) ==
    IF tt = "kantra" THEN "kantra"
    ELSE IF tt = "tackle-hub" THEN "tackle2Hub"
    ELSE IF tt = "tackle-ui" THEN "kantra"
    ELSE IF tt = "kai-rpc" THEN "tackle2Hub"
    ELSE IF tt = "vscode" THEN "kantra"
    ELSE Nil

\* the kantra comparer for "kantra", "tackle-ui", "kai-rpc" and "vscode", the
\* tackle2Hub comparer for "tackle-hub", and a nil interface for any other name
getComparer(tt) ==
    IF tt = "kantra" THEN "kantra"
    ELSE IF tt = "tackle-hub" THEN "tackle2Hub"
    ELSE IF tt = "tackle-ui" THEN "kantra"
    ELSE IF tt = "kai-rpc" THEN "kantra"
    ELSE IF tt = "vscode" THEN "kantra"
    ELSE Nil

\* the methods of the comparer interface
ComparerMethods ==
    {"compareTag", "compareViolation", "compareErrors", "compareUnmatched", "compareSkipped"}

\* the methods a comparer type declares itself
Declares(cmp) == IF cmp = "tackle2Hub" THEN {"compareViolation"} ELSE ComparerMethods

\* the type whose method a call on cmp runs: its own, or the method promoted
\* from the kantra that tackle2Hub embeds
Receiver(cmp, method) == IF method \in Declares(cmp) THEN cmp ELSE "kantra"

\* the method of comparer type recv
MethodOf(recv, method, td, e, a) ==
    CASE method = "compareTag" -> compareTag(e, a)
      [] method = "compareErrors" -> compareErrors(e, a)
      [] method = "compareUnmatched" -> compareUnmatched(e, a)
      [] method = "compareSkipped" -> compareSkipped(e, a)
      [] method = "compareViolation" -> compareViolation(recv, td, e, a)

\* a method call on the comparer interface value; on the nil interface it panics
Invoke(cmp, method, td, e, a) ==
    IF cmp = Nil THEN Panicked
    ELSE MethodOf(Receiver(cmp, method), method, td, e, a)

-----------------------------------------------------------------------------
(* pkg/validator/validator.go: ValidateFiles                               *)

\* the keys of map m in the order of seq: one order a range over m can take
KeysInOrder(m, seq) == SelectSeq(seq, LAMBDA k : k \in DOMAIN m)

\* the errors of the comparisons that reported one, in order
CollectErrors(results) ==
    LET hits == SelectSeq(results, LAMBDA r : r.ok)
    IN  [n \in 1..Len(hits) |-> hits[n].err]

\* what a block of ValidateFiles adds to errors, or the panic of a method call
\* on the nil comparer
Block(cmp, calls, errs) ==
    IF calls > 0 /\ cmp = Nil THEN [panic |-> TRUE, errs |-> <<>>]
    ELSE [panic |-> FALSE, errs |-> errs]
NoBlock == [panic |-> FALSE, errs |-> <<>>]

\* the errors of blocks run one after the other
RECURSIVE ConcatErrors(_)
ConcatErrors(blocks) ==
    IF blocks = <<>> THEN <<>> ELSE Head(blocks).errs \o ConcatErrors(Tail(blocks))

\* blocks run one after the other: a panic in any of them, else all their errors
RunBlocks(blocks) ==
    [panic |-> \E n \in 1..Len(blocks) : blocks[n].panic, errs |-> ConcatErrors(blocks)]

\* if !maps.Equal(ers.Errors, rs.Errors) { ... compareErrors ... }
ErrorsBlock(cmp, ers, rs, order) ==
    IF MapsEqual(ers.Errors, rs.Errors) THEN NoBlock
    ELSE LET keys == KeysInOrder(ers.Errors, order.errors)
         IN  Block(cmp, Len(keys),
                   CollectErrors([n \in 1..Len(keys) |->
                       compareErrors(ers.Errors[keys[n]], LookupString(rs.Errors, keys[n]))]))

\* if !reflect.DeepEqual(rs.Tags, ers.Tags) { ... compareTag ... }
TagsBlock(cmp, ers, rs) ==
    IF rs.Tags = ers.Tags THEN NoBlock
    ELSE Block(cmp, Len(ers.Tags),
               CollectErrors([n \in 1..Len(ers.Tags) |-> compareTag(ers.Tags[n], rs.Tags)]))

\* newMessage: the header, then the message of each error of the violation
ViolationsMessage(header, errs) ==
    Msg(header, [n \in 1..Len(errs) |-> errs[n].Message])

\* the errors appended for the violations whose comparison reported some
ViolationsErrors(header, emap, keys, res) ==
    LET hits == SelectSeq([n \in 1..Len(keys) |-> [key |-> keys[n], r |-> res[n]]],
                          LAMBDA h : h.r.ok)
    IN  [n \in 1..Len(hits) |->
            ValidationError("", ViolationsMessage(header, hits[n].r.errs),
                            emap[hits[n].key], Nil)]

\* the loop over the keys of an expected map, given what each comparison returns
ViolationsOutcome(cmp, header, emap, keys, res) ==
    IF Len(keys) > 0 /\ cmp = Nil THEN [panic |-> TRUE, errs |-> <<>>]
    ELSE IF \E n \in 1..Len(keys) : res[n].panic THEN [panic |-> TRUE, errs |-> <<>>]
    ELSE [panic |-> FALSE, errs |-> ViolationsErrors(header, emap, keys, res)]

\* comparer.compareViolation(ev, rs.Violations[k]) for each key, in order
CompareEach(cmp, td, emap, amap, keys) ==
    [n \in 1..Len(keys) |->
        compareViolation(cmp, td, emap[keys[n]], LookupViolation(amap, keys[n]))]

\* the loop over an expected map of violations (or insights)
ViolationsLoop(cmp, td, header, emap, amap, order) ==
    ViolationsOutcome(cmp, header, emap, KeysInOrder(emap, order.rules),
                      CompareEach(cmp, td, emap, amap, KeysInOrder(emap, order.rules)))

\* if !reflect.DeepEqual(rs.Insights, ers.Insights) { ... compareViolation ... }
InsightsBlock(cmp, td, ers, rs, order) ==
    IF DeepEqualViolations(rs.Insights, ers.Insights) THEN NoBlock
    ELSE ViolationsLoop(cmp, td, "Did not find Insights\n\t", ers.Insights, rs.Insights, order)

\* if !reflect.DeepEqual(rs.Violations, ers.Violations) { ... compareViolation ... }
ViolationsBlock(cmp, td, ers, rs, order) ==
    IF DeepEqualViolations(rs.Violations, ers.Violations) THEN NoBlock
    ELSE ViolationsLoop(cmp, td, "Did not find violations\n\t", ers.Violations, rs.Violations, order)

\* if !reflect.DeepEqual(rs.Unmatched, ers.Unmatched) { ... compareUnmatched ... }
UnmatchedBlock(cmp, ers, rs) ==
    IF rs.Unmatched = ers.Unmatched THEN NoBlock
    ELSE Block(cmp, Len(ers.Unmatched),
               CollectErrors([n \in 1..Len(ers.Unmatched) |->
                   compareUnmatched(ers.Unmatched[n], rs.Unmatched)]))

\* if !reflect.DeepEqual(rs.Skipped, ers.Skipped) { ... compareSkipped ... }
SkippedBlock(cmp, ers, rs) ==
    IF rs.Skipped = ers.Skipped THEN NoBlock
    ELSE Block(cmp, Len(ers.Skipped),
               CollectErrors([n \in 1..Len(ers.Skipped) |->
                   compareSkipped(ers.Skipped[n], rs.Skipped)]))

\* the body of the inner loop for one actual ruleset: the field-level errors
FieldLevel(cmp, td, ers, rs, order) ==
    IF rs.Name # ers.Name THEN NoBlock
    ELSE RunBlocks(<<ErrorsBlock(cmp, ers, rs, order),
                     TagsBlock(cmp, ers, rs),
                     InsightsBlock(cmp, td, ers, rs, order),
                     ViolationsBlock(cmp, td, ers, rs, order),
                     UnmatchedBlock(cmp, ers, rs),
                     SkippedBlock(cmp, ers, rs)>>)

\* the inner loop: for _, rs := range actual
RECURSIVE InnerLoop(_, _, _, _, _)
InnerLoop(cmp, td, ers, act, order) ==
    IF act = <<>> THEN NoBlock
    ELSE RunBlocks(<<FieldLevel(cmp, td, ers, Head(act), order),
                     InnerLoop(cmp, td, ers, Tail(act), order)>>)

\* fmt.Sprintf("ruleset/%s", name)
RuleSetPath(name) == "ruleset/" \o name

\* line 164, after the inner loop:
\* errors = append(errors, ValidationError{Path: fmt.Sprintf("ruleset/%s", ers.Name)})
RuleSetError(ers, act) == <<ValidationError(RuleSetPath(ers.Name), NoMsg, Nil, Nil)>>

\* the outer loop: for _, ers := range expected
RECURSIVE OuterLoop(_, _, _, _, _)
OuterLoop(cmp, td, exp, act, order) ==
    IF exp = <<>> THEN NoBlock
    ELSE RunBlocks(<<InnerLoop(cmp, td, Head(exp), act, order),
                     [panic |-> FALSE, errs |-> RuleSetError(Head(exp), act)],
                     OuterLoop(cmp, td, Tail(exp), act, order)>>)

\* Passed left as ValidateFiles initialises it
PassedForInitial(errors) == TRUE

\* result.Passed = len(errors) == 0
PassedFor(errors) == Len(errors) = 0

\* result.Passed and result.Errors from errors, and the nil error returned
ResultOf(loop) ==
    [panic |-> loop.panic,
     result |-> [Passed |-> PassedFor(loop.errs), Errors |-> loop.errs],
     err |-> Nil]

\* ValidateFiles: the *ValidationResult and the error it returns, or a panic
ValidateFiles(td, tt, act, exp, order) ==
    ResultOf(OuterLoop(getComparer(tt), td, exp, act, order))

\* Validate(actual, expected) = ValidateFiles("", "", actual, expected)
Validate(act, exp, order) == ValidateFiles(<<>>, "", act, exp, order)

-----------------------------------------------------------------------------
(* The inputs of the model.                                                *)

\* a violation that sets no field but its description
PlainViolation == [ZeroViolation EXCEPT !.Description = "d"]

\* a violation that sets every field
RichViolation ==
    [Description |-> "d", Category |-> "c1", Labels |-> <<"l1">>,
     Incidents |-> <<>>, Links |-> <<[URL |-> "u", Title |-> "t"]>>, Effort |-> "i1"]

\* the same values as RichViolation in separately allocated objects
ReallocatedViolation == [RichViolation EXCEPT !.Category = "c2", !.Effort = "i2"]

\* a violation with one incident that carries a code snippet, and the same
\* violation with the snippet left out
SnippetViolation == [PlainViolation EXCEPT !.Incidents = <<BaseIncident>>]
NoSnippetViolation ==
    [PlainViolation EXCEPT !.Incidents = <<[BaseIncident EXCEPT !.CodeSnip = <<>>]>>]

\* a ruleset with no findings
EmptyRuleSet(name) ==
    [Name |-> name, Tags |-> <<>>, Violations |-> EmptyMap, Insights |-> EmptyMap,
     Errors |-> EmptyMap, Unmatched |-> <<>>, Skipped |-> <<>>]

\* a ruleset that sets every field
FullRuleSet(name) ==
    [Name |-> name, Tags |-> <<"t1", "t2">>,
     Violations |-> [k \in {"k1", "k2"} |->
                        IF k = "k1" THEN SnippetViolation ELSE RichViolation],
     Insights |-> [k \in {"k1"} |-> PlainViolation],
     Errors |-> [k \in {"e1", "e2"} |-> IF k = "e1" THEN "x" ELSE "y"],
     Unmatched |-> <<"u1">>, Skipped |-> <<"s1">>]

\* a ruleset whose only finding is one violation with one incident, with its
\* code snippet and without it
SnippetRuleSet(name) ==
    [EmptyRuleSet(name) EXCEPT !.Violations = [k \in {"k1"} |-> SnippetViolation]]
NoSnippetRuleSet(name) ==
    [EmptyRuleSet(name) EXCEPT !.Violations = [k \in {"k1"} |-> NoSnippetViolation]]

\* a ruleset that lacks some of what FullRuleSet holds
PartialRuleSet(name) ==
    [Name |-> name, Tags |-> <<"t1">>,
     Violations |-> [k \in {"k2"} |-> ReallocatedViolation],
     Insights |-> EmptyMap,
     Errors |-> [k \in {"e1"} |-> "x"],
     Unmatched |-> <<>>, Skipped |-> <<>>]

\* a ruleset whose only finding is a violation that has only a description
DescriptionRuleSet(name) ==
    [EmptyRuleSet(name) EXCEPT !.Violations = [k \in {"k1"} |-> PlainViolation]]

RuleSetPool ==
    {EmptyRuleSet("r1"), FullRuleSet("r1"), SnippetRuleSet("r1"), NoSnippetRuleSet("r1"),
     PartialRuleSet("r1"), DescriptionRuleSet("r1"),
     EmptyRuleSet("r2"), FullRuleSet("r2")}

\* the orders a range over a map may take: one order of the rule ids and one of
\* the error keys for each call
RuleIds == {"k1", "k2"}
ErrorKeys == {"e1", "e2"}
Orders ==
    [rules : {<<"k1", "k2">>, <<"k2", "k1">>}, errors : {<<"e1", "e2">>, <<"e2", "e1">>}]

\* the state of the variables a specification does not use
IdleLabels == selector = <<>> /\ labels = NewLabels
IdleArgs ==
    /\ analysis = [ContextLines |-> 0, LabelSelector |-> "", IncidentSelector |-> "",
                   Target |-> <<>>, Source |-> <<>>, Rules |-> <<>>, AnalysisMode |-> ""]
    /\ inputPath = "" /\ outputDir = "" /\ mavenSettings = "" /\ args = <<>>
IdleValidate ==
    /\ actual = <<>> /\ expected = <<>>
    /\ result = [Passed |-> TRUE, Errors |-> <<>>] /\ err = Nil
IdleViolation ==
    /\ vexpected = ZeroViolation /\ vactual = ZeroViolation
    /\ verrors = <<>> /\ vfound = FALSE
IdleInput ==
    /\ application = <<>> /\ fs = {}
    /\ git = [url |-> <<>>, ref |-> <<>>, path |-> <<>>]
    /\ prepared = [path |-> <<>>, err |-> "nil", kind |-> ""]
    /\ commands = <<>>
IdleExecute ==
    /\ test = [RequireMavenSettings |-> FALSE]
    /\ steps = <<>>
    /\ execution = [result |-> [isNil |-> TRUE, OutputFile |-> ""], err |-> "nil"]
IdleTarget ==
    /\ cfg = [isNil |-> TRUE, BinaryPath |-> "", MavenSettings |-> ""]
    /\ executables = {}
    /\ target = [isNil |-> TRUE, binaryPath |-> "", mavenSettings |-> "", err |-> "nil",
                 name |-> ""]
IdlePoll ==
    /\ task = ""
    /\ poll = [ctx |-> "live", polls |-> 0, observed |-> "", seen |-> {},
               outcome |-> "", err |-> "nil", rulesets |-> "nil"]
IdleRest ==
    /\ call = [method |-> "", e |-> "", a |-> "", returned |-> ""]
    /\ runs = <<>>
IdleRun == IdleInput /\ IdleExecute /\ IdleTarget /\ IdlePoll /\ IdleRest

-----------------------------------------------------------------------------
(* SpecLabels: ParseLabelSelector on every selector of the bounded alphabet *)

InitLabels ==
    /\ pc = "start" /\ op = ""
    /\ selector \in StringsUpTo(SelectorAlphabet, MaxSelectorLen)
    /\ labels = NewLabels
    /\ testDir = <<>> /\ targetType = ""
    /\ IdleArgs /\ IdleValidate /\ IdleViolation /\ IdleRun

ParseLabelSelectorCall ==
    /\ pc = "start"
    /\ pc' = "returned" /\ op' = "ParseLabelSelector"
    /\ labels' = ParseLabelSelector(selector)
    /\ UNCHANGED <<selector, argVars, validateVars, violationVars, runVars>>

NextLabels == ParseLabelSelectorCall

SpecLabels == InitLabels /\ [][NextLabels]_vars

-----------------------------------------------------------------------------
(* SpecArgs: buildArgs on every bounded analysis configuration             *)

InitArgs ==
    /\ pc = "start" /\ op = ""
    /\ analysis \in AnalysisConfigs
    /\ inputPath = "/in" /\ outputDir = "/out"
    /\ mavenSettings \in SettingsValues
    /\ args = <<>>
    /\ testDir = <<>> /\ targetType = ""
    /\ IdleLabels /\ IdleValidate /\ IdleViolation /\ IdleRun

buildArgsCall ==
    /\ pc = "start"
    /\ pc' = "returned" /\ op' = "buildArgs"
    /\ args' = buildArgs(analysis, inputPath, outputDir, mavenSettings)
    /\ UNCHANGED <<analysis, inputPath, outputDir, mavenSettings,
                   labelVars, validateVars, violationVars, runVars>>

NextArgs == buildArgsCall

SpecArgs == InitArgs /\ [][NextArgs]_vars

-----------------------------------------------------------------------------
(* SpecViolation: compareViolation of both comparers on bounded violations *)

InitViolation ==
    /\ pc = "start" /\ op = ""
    /\ \E ne \in 0..MaxIncidents : \E na \in 0..(MaxIncidents - ne) :
         \E eis \in [1..ne -> IncidentPool], ais \in [1..na -> IncidentPool] :
           /\ vexpected \in {[PlainViolation EXCEPT !.Incidents = eis],
                             [RichViolation EXCEPT !.Incidents = eis]}
           /\ vactual = [PlainViolation EXCEPT !.Incidents = ais]
    /\ verrors = <<>> /\ vfound = FALSE
    /\ testDir = <<>> /\ targetType = ""
    /\ IdleLabels /\ IdleArgs /\ IdleValidate /\ IdleRun

\* the state after a call of compareViolation that returned r (or panicked)
ViolationReturns(td, tt, r) ==
    /\ testDir' = td /\ targetType' = tt
    /\ pc' = IF r.panic THEN "panicked" ELSE "returned"
    /\ op' = "compareViolation"
    /\ verrors' = r.errs /\ vfound' = r.ok

compareViolationCall ==
    /\ pc = "start"
    /\ \E td \in TestDirs, tt \in {"kantra", "tackle-hub"} :
         ViolationReturns(td, tt, compareViolation(getComparer(tt), td, vexpected, vactual))
    /\ UNCHANGED <<vexpected, vactual, actual, expected, result, err, labelVars, argVars,
                   runVars>>

NextViolation == compareViolationCall

SpecViolation == InitViolation /\ [][NextViolation]_vars

-----------------------------------------------------------------------------
(* SpecFields: compareViolation of both comparers on violations without    *)
(* incidents that differ in category, effort and links                     *)

\* links with equal and different titles, one of them with its title as its URL
LinkPool ==
    {[URL |-> "u", Title |-> "t"], [URL |-> "t", Title |-> "t"], [URL |-> "u", Title |-> "s"]}

\* the expected violation is allocated once; the actual one may share its
\* objects, hold equal values in objects of its own, or hold other values
InitFields ==
    /\ pc = "start" /\ op = ""
    /\ \E ec \in {Nil, "c1"}, ee \in {Nil, "i1"}, ac \in {Nil} \cup CategoryPtrs,
          ae \in {Nil} \cup IntPtrs :
         \E ne \in 0..MaxLinks : \E na \in 0..(MaxLinks - ne) :
           \E els \in [1..ne -> LinkPool], als \in [1..na -> LinkPool] :
             /\ vexpected = [PlainViolation EXCEPT !.Category = ec, !.Effort = ee, !.Links = els]
             /\ vactual = [PlainViolation EXCEPT !.Category = ac, !.Effort = ae, !.Links = als]
    /\ verrors = <<>> /\ vfound = FALSE
    /\ testDir = <<>> /\ targetType = ""
    /\ IdleLabels /\ IdleArgs /\ IdleValidate /\ IdleRun

SpecFields == InitFields /\ [][NextViolation]_vars

-----------------------------------------------------------------------------
(* SpecComparer: one method call on the comparer getComparer returns       *)

\* the strings and lists of strings of a tag, error, unmatched or skipped
\* comparison, and the violations of a violation comparison
StringPool == {"a", "b"}
StringLists == UNION {[1..n -> StringPool] : n \in 0..MaxStrings}
ViolationInputs == {PlainViolation, RichViolation, SnippetViolation, NoSnippetViolation}

InitComparer ==
    /\ pc = "start" /\ op = ""
    /\ testDir \in TestDirs /\ targetType \in TargetTypes
    /\ actual = <<>> /\ expected = <<>>
    /\ result = [Passed |-> TRUE, Errors |-> <<>>] /\ err = Nil
    /\ IdleLabels /\ IdleArgs /\ IdleViolation
    /\ IdleInput /\ IdleExecute /\ IdleTarget /\ IdlePoll
    /\ call = [method |-> "", e |-> "", a |-> "", returned |-> ""]
    /\ runs = <<>>

\* the state after method was called on getComparer(targetType, testDir)
Calls(method, e, a) ==
    /\ pc = "start"
    /\ call' = [method |-> method, e |-> e, a |-> a,
                returned |-> Invoke(getComparer(targetType), method, testDir, e, a)]
    /\ pc' = IF getComparer(targetType) = Nil THEN "panicked" ELSE "returned"
    /\ op' = method
    /\ UNCHANGED <<testDir, targetType, actual, expected, result, err, runs,
                   labelVars, argVars, violationVars,
                   inputVars, executeVars, targetVars, pollVars>>

compareTagCall == \E e \in StringPool, a \in StringLists : Calls("compareTag", e, a)

compareErrorsCall == \E e \in StringPool, a \in StringPool : Calls("compareErrors", e, a)

compareUnmatchedCall ==
    \E e \in StringPool, a \in StringLists : Calls("compareUnmatched", e, a)

compareSkippedCall == \E e \in StringPool, a \in StringLists : Calls("compareSkipped", e, a)

compareViolationMethodCall ==
    \E e \in ViolationInputs, a \in ViolationInputs : Calls("compareViolation", e, a)

NextComparer ==
    \/ compareTagCall
    \/ compareErrorsCall
    \/ compareUnmatchedCall
    \/ compareSkippedCall
    \/ compareViolationMethodCall

SpecComparer == InitComparer /\ [][NextComparer]_vars

-----------------------------------------------------------------------------
(* SpecConcurrent: Execute calls of one target for tests with different    *)
(* names and git applications, interleaved step by step                    *)

\* the names and directories of the tests, and test.GetWorkDir()
TestNames == {<<"a">>, <<"b">>, <<"c">>}
RunTestDirs == {<<"/", "t">>, <<"/", "u">>}
BaseWorkDir == <<"/", "w">>

\* PrepareWorkDir: the work directory of a test, named after the test
PrepareWorkDir(base, name) == FilepathJoin(base, name)

\* filepath.Join(workDir, "output")
RunOutputDir(name) ==
    FilepathJoin(PrepareWorkDir(BaseWorkDir, name), <<"o", "u", "t", "p", "u", "t">>)

\* run r is at position at
RunAt(r, at) == r \in DOMAIN runs /\ runs[r].pc = at

\* run r moves on to position to, having created, cloned into or written to dirs
RunMoves(r, to, dirs) ==
    /\ runs' = [runs EXCEPT ![r].pc = to, ![r].dirs = @ \cup dirs]
    /\ UNCHANGED <<pc, op, labelVars, argVars, validateVars, violationVars,
                   application, git, prepared, commands,
                   executeVars, targetVars, pollVars, call>>

InitConcurrent ==
    /\ pc = "start" /\ op = ""
    /\ testDir = <<>> /\ targetType = ""
    /\ actual = <<>> /\ expected = <<>>
    /\ result = [Passed |-> TRUE, Errors |-> <<>>] /\ err = Nil
    /\ IdleLabels /\ IdleArgs /\ IdleViolation
    /\ IdleInput /\ IdleExecute /\ IdleTarget /\ IdlePoll
    /\ call = [method |-> "", e |-> "", a |-> "", returned |-> ""]
    /\ \E names \in [1..MaxRuns -> TestNames], dirs \in [1..MaxRuns -> RunTestDirs] :
         /\ \A r, q \in 1..MaxRuns : r # q => names[r] # names[q]
         /\ runs = [r \in 1..MaxRuns |->
                      [name |-> names[r], testDir |-> dirs[r], pc |-> "workdir", dirs |-> {}]]

\* PrepareWorkDir(test.GetWorkDir(), test.Name) fails, or makes the directory
RunPrepareWorkDir(r) ==
    /\ RunAt(r, "workdir")
    /\ \/ RunMoves(r, "done", {}) /\ UNCHANGED fs
       \/ /\ RunMoves(r, "input", {PrepareWorkDir(BaseWorkDir, runs[r].name)})
          /\ fs' = fs \cup {PrepareWorkDir(BaseWorkDir, runs[r].name)}

\* prepareInput up to os.Stat(absInputDir): the clone is skipped or comes next
RunStat(r) ==
    /\ RunAt(r, "input")
    /\ IF Stat(fs, CloneDir(runs[r].testDir))
       THEN RunMoves(r, "output", {})
       ELSE RunMoves(r, "clone", {})
    /\ UNCHANGED fs

\* git clone into absCloneDir fails, or leaves the repository there
RunClone(r) ==
    /\ RunAt(r, "clone")
    /\ \/ RunMoves(r, "done", {CloneDir(runs[r].testDir)}) /\ UNCHANGED fs
       \/ /\ RunMoves(r, "output", {CloneDir(runs[r].testDir)})
          /\ fs' = fs \cup {CloneDir(runs[r].testDir)}

\* os.MkdirAll(absOutputDir) fails, or makes the output directory
RunOutput(r) ==
    /\ RunAt(r, "output")
    /\ \/ RunMoves(r, "done", {}) /\ UNCHANGED fs
       \/ /\ RunMoves(r, "invoke", {RunOutputDir(runs[r].name)})
          /\ fs' = fs \cup {RunOutputDir(runs[r].name)}

\* ExecuteCommand: kantra writes output.yaml to the output directory
RunInvoke(r) ==
    /\ RunAt(r, "invoke")
    /\ RunMoves(r, "done", {RunOutputDir(runs[r].name)})
    /\ UNCHANGED fs

NextConcurrent ==
    \E r \in 1..MaxRuns :
        \/ RunPrepareWorkDir(r)
        \/ RunStat(r)
        \/ RunClone(r)
        \/ RunOutput(r)
        \/ RunInvoke(r)

SpecConcurrent == InitConcurrent /\ [][NextConcurrent]_vars

-----------------------------------------------------------------------------
(* Spec: Validate and ValidateFiles on bounded lists of rulesets           *)

Init ==
    /\ pc = "start" /\ op = ""
    /\ \E ne \in 0..MaxRuleSets : \E na \in 0..(MaxRuleSets - ne) :
         /\ expected \in [1..ne -> RuleSetPool]
         /\ actual \in [1..na -> RuleSetPool]
    /\ result = [Passed |-> TRUE, Errors |-> <<>>] /\ err = Nil
    /\ testDir = <<>> /\ targetType = ""
    /\ IdleLabels /\ IdleArgs /\ IdleViolation /\ IdleRun

\* the state after a call that returned r (or panicked)
Returns(name, td, tt, r) ==
    /\ op' = name /\ testDir' = td /\ targetType' = tt
    /\ pc' = IF r.panic THEN "panicked" ELSE "returned"
    /\ result' = IF r.panic THEN result ELSE r.result
    /\ err' = IF r.panic THEN err ELSE r.err
    /\ UNCHANGED <<actual, expected, labelVars, argVars, violationVars, runVars>>

ValidateFilesCall ==
    /\ pc = "start"
    /\ \E td \in TestDirs, tt \in TargetTypes, order \in Orders :
         Returns("ValidateFiles", td, tt, ValidateFiles(td, tt, actual, expected, order))

ValidateCall ==
    /\ pc = "start"
    /\ \E order \in Orders :
         Returns("Validate", <<>>, "", Validate(actual, expected, order))

Next == ValidateFilesCall \/ ValidateCall

Spec == Init /\ [][Next]_vars

-----------------------------------------------------------------------------
(* SpecInput: prepareInput, run again and again in one test directory      *)

\* the application references: a prefix and up to MaxRefLen pieces
RefPrefixes ==
    {<<>>, HttpPrefix, HttpsPrefix, GitAtPrefix, <<"b", "o", "b", "@", "h", ":">>, BinaryPrefix}
RefPieces == {<<"a">>, Slash, <<"#">>, JarExt, <<".", "W", "a", "r">>}
RECURSIVE Flatten(_)
Flatten(pieces) == IF pieces = <<>> THEN <<>> ELSE Head(pieces) \o Flatten(Tail(pieces))
Applications ==
    {prefix \o Flatten(pieces) :
        prefix \in RefPrefixes, pieces \in StringsUpTo(RefPieces, MaxRefLen)}

\* the test directory of the run
InputTestDir == <<"/", "t">>

\* the paths prepareInput may look at for an application
PathsOf(app) ==
    IF IsBinaryFile(app)
    THEN {IF IsAbs(app) THEN Clean(app) ELSE FilepathJoin(InputTestDir, app)}
    ELSE {CloneDir(InputTestDir), InputDir(InputTestDir, ParseGitReference(app))}

\* a file system holds the folder of each path it holds
FileSystems(app) ==
    {fsys \in SUBSET PathsOf(app) :
        InputDir(InputTestDir, ParseGitReference(app)) \in fsys
            => CloneDir(InputTestDir) \in fsys}

\* what a git clone may do: fail, or succeed on a repository that holds the
\* subpath or does not
CloneOutcomes == [ok : BOOLEAN, hasPath : BOOLEAN]

InitInput ==
    /\ pc = "start" /\ op = ""
    /\ application \in Applications
    /\ fs \in FileSystems(application)
    /\ testDir = InputTestDir /\ targetType = ""
    /\ git = NoGitReference
    /\ prepared = [path |-> <<>>, err |-> Nil, kind |-> ""]
    /\ commands = <<>>
    /\ IdleLabels /\ IdleArgs /\ IdleValidate /\ IdleViolation /\ IdleExecute /\ IdleTarget /\ IdleRest
    /\ IdlePoll

InputReturns(r) ==
    /\ pc' = "returned" /\ op' = "prepareInput"
    /\ prepared' = [path |-> r.path, err |-> r.err, kind |-> r.kind]
    /\ git' = r.git
    /\ commands' = r.commands
    /\ fs' = r.fs

prepareInputCall ==
    /\ pc \in {"start", "returned"}
    /\ \E clone \in CloneOutcomes :
         InputReturns(prepareInput(application, testDir, fs, clone))
    /\ UNCHANGED <<application, testDir, targetType,
                   labelVars, argVars, violationVars, actual, expected, result, err,
                   executeVars, targetVars, restVars, pollVars>>

NextInput == prepareInputCall

SpecInput == InitInput /\ [][NextInput]_vars

-----------------------------------------------------------------------------
(* SpecExecute: KantraTarget.Execute, step by step                         *)

\* the steps of Execute, in the order of the code
ExecuteOrder == <<"precondition", "testdir", "workdir", "input", "output", "invoke">>

\* Execute without the maven settings requirement
MissingMavenSettingsNever(t, settings) == FALSE

\* test.RequireMavenSettings && k.mavenSettings == ""
MissingMavenSettings(t, settings) == t.RequireMavenSettings /\ settings = ""

\* the directory PrepareWorkDir returns, and filepath.Join(workDir, "output")
WorkDir == <<"/", "w">>
OutputDir == FilepathJoin(WorkDir, <<"o", "u", "t", "p", "u", "t">>)

\* k.binaryPath
BinaryPath == "kantra"

\* return nil, err
NoResult == [isNil |-> TRUE, OutputFile |-> ""]
Fails(message) ==
    /\ pc' = "returned"
    /\ execution' = [result |-> NoResult, err |-> message]

\* the step that is performed
Performs(step) == op' = "Execute" /\ steps' = Append(steps, step)

\* what no step of Execute changes
ExecuteKeeps ==
    UNCHANGED <<test, application, analysis, mavenSettings, testDir, targetType,
                actual, expected, result, err, labelVars, violationVars, targetVars, restVars,
                pollVars>>

CheckMavenSettings ==
    /\ pc = "start"
    /\ Performs("precondition")
    /\ IF MissingMavenSettings(test, mavenSettings)
       THEN Fails("test requires maven settings but none configured in target config")
       ELSE pc' = "testdir" /\ UNCHANGED execution
    /\ UNCHANGED <<inputPath, outputDir, args, fs, git, prepared, commands>>
    /\ ExecuteKeeps

GetTestDir ==
    /\ pc = "testdir"
    /\ Performs("testdir")
    /\ IF testDir = <<>>
       THEN Fails("test directory not available")
       ELSE pc' = "workdir" /\ UNCHANGED execution
    /\ UNCHANGED <<inputPath, outputDir, args, fs, git, prepared, commands>>
    /\ ExecuteKeeps

\* PrepareWorkDir fails, or makes the work directory
PrepareWorkDirStep ==
    /\ pc = "workdir"
    /\ Performs("workdir")
    /\ \/ Fails("failed to create work directory") /\ UNCHANGED fs
       \/ pc' = "input" /\ fs' = fs \cup {WorkDir} /\ UNCHANGED execution
    /\ UNCHANGED <<inputPath, outputDir, args, git, prepared, commands>>
    /\ ExecuteKeeps

\* the outcome r of prepareInput, as Execute handles it
InputPrepares(r) ==
    /\ prepared' = [path |-> r.path, err |-> r.err, kind |-> r.kind]
    /\ git' = r.git
    /\ commands' = commands \o r.commands
    /\ fs' = r.fs
    /\ IF r.err # Nil
       THEN Fails("failed to prepare input") /\ UNCHANGED inputPath
       ELSE pc' = "output" /\ inputPath' = GoString(r.path) /\ UNCHANGED execution

PrepareInputStep ==
    /\ pc = "input"
    /\ Performs("input")
    /\ \E clone \in CloneOutcomes :
         InputPrepares(prepareInput(application, testDir, fs, clone))
    /\ UNCHANGED <<outputDir, args>>
    /\ ExecuteKeeps

\* filepath.Abs or os.MkdirAll fails, or the output directory is made
OutputDirStep ==
    /\ pc = "output"
    /\ Performs("output")
    /\ \/ Fails("failed to get absolute output path") /\ UNCHANGED <<fs, outputDir>>
       \/ Fails("failed to create output directory") /\ UNCHANGED <<fs, outputDir>>
       \/ /\ pc' = "invoke" /\ fs' = fs \cup {OutputDir}
          /\ outputDir' = GoString(OutputDir) /\ UNCHANGED execution
    /\ UNCHANGED <<inputPath, args, git, prepared, commands>>
    /\ ExecuteKeeps

\* buildArgs and ExecuteCommand, which fails or gives a result
InvokeStep ==
    /\ pc = "invoke"
    /\ Performs("invoke")
    /\ args' = buildArgs(analysis, inputPath, outputDir, mavenSettings)
    /\ commands' = Append(commands, [name |-> BinaryPath, args |-> args'])
    /\ \/ Fails("command failed")
       \/ /\ pc' = "returned"
          /\ execution' = [result |-> [isNil |-> FALSE,
                                       OutputFile |-> outputDir \o "/output.yaml"],
                           err |-> Nil]
    /\ UNCHANGED <<inputPath, outputDir, fs, git, prepared>>
    /\ ExecuteKeeps

\* the applications and analysis configurations Execute is run on
ExecuteApplications ==
    {<<"/", "a">>, JarExt, BinaryPrefix \o <<"a">>, HttpPrefix, HttpsPrefix \o <<"#", "a", "/", "a">>}
ExecuteAnalyses ==
    {a \in AnalysisConfigs :
        /\ a.ContextLines = 0 /\ a.LabelSelector = "" /\ a.IncidentSelector = ""
        /\ a.Target = <<>> /\ a.Source = <<>> /\ a.Rules = <<>>}

InitExecute ==
    /\ pc = "start" /\ op = ""
    /\ test \in [RequireMavenSettings : BOOLEAN]
    /\ mavenSettings \in SettingsValues
    /\ testDir \in {<<>>, InputTestDir} /\ targetType = ""
    /\ application \in ExecuteApplications
    /\ analysis \in ExecuteAnalyses
    /\ fs \in FileSystems(application)
    /\ inputPath = "" /\ outputDir = "" /\ args = <<>>
    /\ git = NoGitReference
    /\ prepared = [path |-> <<>>, err |-> Nil, kind |-> ""]
    /\ commands = <<>> /\ steps = <<>>
    /\ execution = [result |-> NoResult, err |-> Nil]
    /\ IdleLabels /\ IdleValidate /\ IdleViolation /\ IdleTarget /\ IdleRest /\ IdlePoll

NextExecute ==
    \/ CheckMavenSettings
    \/ GetTestDir
    \/ PrepareWorkDirStep
    \/ PrepareInputStep
    \/ OutputDirStep
    \/ InvokeStep

SpecExecute == InitExecute /\ [][NextExecute]_vars

-----------------------------------------------------------------------------
(* SpecTarget: NewKantraTarget and Name                                    *)

\* a nil *config.KantraConfig, and a nil *KantraTarget with an error
NilConfig == [isNil |-> TRUE, BinaryPath |-> "", MavenSettings |-> ""]
NoTarget(error) ==
    [isNil |-> TRUE, binaryPath |-> "", mavenSettings |-> "", err |-> error, name |-> ""]

\* exec.LookPath("kantra"): the executable of that name in PATH, or "" for
\* an error
PathKantra == "/usr/bin/kantra"
LookPath(files) == IF PathKantra \in files THEN PathKantra ELSE ""

\* the binary path always taken from PATH
ResolveBinaryFromPath(c, files) == LookPath(files)

\* binaryPath: the configured path if provided, else the one found in PATH
ResolveBinary(c, files) ==
    IF ~c.isNil /\ c.BinaryPath # "" THEN c.BinaryPath ELSE LookPath(files)

\* NewKantraTarget
NewKantraTarget(c, files) ==
    IF ResolveBinary(c, files) = ""
    THEN NoTarget("kantra binary not found in PATH")
    ELSE [isNil |-> FALSE,
          binaryPath |-> ResolveBinary(c, files),
          mavenSettings |-> IF ~c.isNil THEN c.MavenSettings ELSE "",
          err |-> Nil, name |-> ""]

\* Name
Name(k) == "kantra"

\* the configurations and executables NewKantraTarget is called with
KantraConfigs ==
    {NilConfig} \cup [isNil : {FALSE},
                      BinaryPath : {"", "/usr/local/bin/kantra", "/opt/kantra"},
                      MavenSettings : SettingsValues]
Executables == SUBSET {PathKantra, "/usr/local/bin/kantra", "/opt/kantra"}

InitTarget ==
    /\ pc = "start" /\ op = ""
    /\ cfg \in KantraConfigs
    /\ executables \in Executables
    /\ target = NoTarget(Nil)
    /\ testDir = <<>> /\ targetType = ""
    /\ IdleLabels /\ IdleArgs /\ IdleValidate /\ IdleViolation /\ IdleInput /\ IdleExecute
    /\ IdlePoll /\ IdleRest

NewKantraTargetCall ==
    /\ pc = "start"
    /\ pc' = "returned" /\ op' = "NewKantraTarget"
    /\ target' = NewKantraTarget(cfg, executables)
    /\ UNCHANGED <<cfg, executables, labelVars, argVars, validateVars, violationVars,
                   inputVars, executeVars, pollVars, restVars>>

\* Name on the target that was returned
NameCall ==
    /\ pc = "returned" /\ ~target.isNil
    /\ pc' = "named" /\ op' = "Name"
    /\ target' = [target EXCEPT !.name = Name(target)]
    /\ UNCHANGED <<cfg, executables, labelVars, argVars, validateVars, violationVars,
                   inputVars, executeVars, pollVars, restVars>>

NextTarget == NewKantraTargetCall \/ NameCall

SpecTarget == InitTarget /\ [][NextTarget]_vars

-----------------------------------------------------------------------------
(* SpecPoll: the polling of a remote task by the hub-style backend, as the  *)
(* specification of the task state machine describes it                    *)

\* the task states
TaskStateCreated == "Created"
TaskStateReady == "Ready"
TaskStatePending == "Pending"
TaskStatePostponed == "Postponed"
TaskStateRunning == "Running"
TaskStateSucceeded == "Succeeded"
TaskStateFailed == "Failed"

\* the transitions of the remote task
TaskTransitions ==
    {<<TaskStateCreated, TaskStateReady>>, <<TaskStateReady, TaskStatePending>>,
     <<TaskStatePending, TaskStateRunning>>,
     <<TaskStateReady, TaskStatePostponed>>, <<TaskStatePending, TaskStatePostponed>>,
     <<TaskStatePostponed, TaskStatePending>>,
     <<TaskStateRunning, TaskStateSucceeded>>, <<TaskStateRunning, TaskStateFailed>>}

\* the classification with postponement taken for failure
ClassifyPostponedFails(state) ==
    IF state = TaskStateSucceeded THEN "succeeded"
    ELSE IF state \in {TaskStateFailed, TaskStatePostponed} THEN "failed"
    ELSE "continue"

\* the classification of an observed state: continue polling, succeeded, failed
Classify(state) ==
    IF state = TaskStateSucceeded THEN "succeeded"
    ELSE IF state = TaskStateFailed THEN "failed"
    ELSE "continue"

\* the errors of a run that did not succeed
TimeoutError == "timeout waiting for task"
FailedError == "task failed"

\* an abort that hands back what was fetched so far
AbortedWithResults(p) ==
    [p EXCEPT !.outcome = "timeout", !.err = TimeoutError, !.rulesets = "partial"]

\* the poller after it saw the cancellation or the deadline
Aborted(p) == [p EXCEPT !.outcome = "timeout", !.err = TimeoutError]

\* the poller after a poll that observed state
Observed(p, state) ==
    [p EXCEPT !.polls = p.polls + 1,
              !.observed = state,
              !.seen = p.seen \cup {state},
              !.outcome = IF Classify(state) = "continue" THEN "" ELSE Classify(state),
              !.err = IF Classify(state) = "failed" THEN FailedError ELSE Nil,
              !.rulesets = IF Classify(state) = "succeeded" THEN "fetched" ELSE Nil]

\* what the polling leaves alone
PollKeeps ==
    UNCHANGED <<op, testDir, targetType, actual, expected, result, err,
                labelVars, argVars, violationVars, inputVars, executeVars, targetVars, restVars>>

InitPoll ==
    /\ pc = "waiting" /\ op = "pollTask"
    /\ task = TaskStateCreated
    /\ poll = [ctx |-> "live", polls |-> 0, observed |-> "", seen |-> {},
               outcome |-> "", err |-> Nil, rulesets |-> Nil]
    /\ testDir = <<>> /\ targetType = ""
    /\ IdleLabels /\ IdleArgs /\ IdleValidate /\ IdleViolation
    /\ IdleInput /\ IdleExecute /\ IdleTarget /\ IdleRest

\* the remote task moves on
TaskAdvances ==
    /\ \E t \in TaskTransitions : task = t[1] /\ task' = t[2]
    /\ UNCHANGED <<pc, poll>>
    /\ PollKeeps

\* the context is cancelled from outside
Cancel ==
    /\ pc = "waiting" /\ poll.ctx = "live"
    /\ poll' = [poll EXCEPT !.ctx = "cancelled"]
    /\ UNCHANGED <<pc, task>>
    /\ PollKeeps

\* the deadline passes
DeadlineExpires ==
    /\ pc = "waiting" /\ poll.ctx = "live"
    /\ poll' = [poll EXCEPT !.ctx = "expired"]
    /\ UNCHANGED <<pc, task>>
    /\ PollKeeps

\* the timer ticks first: the next poll is issued and its answer classified
Tick ==
    /\ pc = "waiting" /\ poll.ctx = "live" /\ poll.polls < MaxPolls
    /\ poll' = Observed(poll, task)
    /\ pc' = IF Classify(task) = "continue" THEN "waiting" ELSE "returned"
    /\ UNCHANGED task
    /\ PollKeeps

\* the cancellation or the deadline is seen: abort
Abort ==
    /\ pc = "waiting" /\ poll.ctx # "live"
    /\ poll' = Aborted(poll)
    /\ pc' = "returned"
    /\ UNCHANGED task
    /\ PollKeeps

NextPoll == TaskAdvances \/ Cancel \/ DeadlineExpires \/ Tick \/ Abort

\* the timer and the deadline fire in the end, and the poller reacts
SpecPoll ==
    /\ InitPoll /\ [][NextPoll]_vars
    /\ WF_vars(Tick) /\ WF_vars(Abort) /\ WF_vars(DeadlineExpires)

-----------------------------------------------------------------------------
(* Properties of Validate and ValidateFiles, checked under Spec            *)

\* the backend names getComparer knows
KnownBackends == {"kantra", "tackle-hub", "tackle-ui", "kai-rpc", "vscode"}

\* the call was one of the two entry points of the validator
ValidatorCalled == pc # "start" /\ op \in {"Validate", "ValidateFiles"}

\* C1: validating a list of rulesets against itself, with Validate or with
\* ValidateFiles for a known backend, returns Passed = true and no errors,
\* also when the list is not empty.
C1_Reflexive ==
    (/\ ValidatorCalled
     /\ actual = expected
     /\ (op = "Validate" \/ targetType \in KnownBackends))
    => (pc = "returned" /\ result.Passed /\ Len(result.Errors) = 0)

\* no actual ruleset has the name of the n-th expected ruleset
NoActualNamed(n) == \A m \in 1..Len(actual) : actual[m].Name # expected[n].Name

\* the number of reported errors whose Path is "ruleset/<name>"
RuleSetErrorCount(name) ==
    Cardinality({m \in 1..Len(result.Errors) : result.Errors[m].Path = RuleSetPath(name)})

\* the number of expected rulesets called name
ExpectedNamed(name) ==
    Cardinality({j \in 1..Len(expected) : expected[j].Name = name})

\* C2: for every expected ruleset without an actual ruleset of the same name,
\* whatever the other rulesets contain, the call returns Passed = false and
\* the errors hold exactly one error with Path "ruleset/<name>" for each such
\* expected ruleset.
C2_MissingRuleSet ==
    ValidatorCalled =>
        \A n \in 1..Len(expected) :
            NoActualNamed(n) =>
                /\ pc = "returned"
                /\ ~result.Passed
                /\ RuleSetErrorCount(expected[n].Name) = ExpectedNamed(expected[n].Name)

\* C3: every result Validate or ValidateFiles returns has Passed = true if
\* and only if its Errors sequence is empty.
C3_PassedIffNoErrors ==
    (ValidatorCalled /\ pc = "returned") => (result.Passed <=> Len(result.Errors) = 0)

\* a returned result with several errors and Passed = false
C3_Witness ==
    /\ ValidatorCalled /\ pc = "returned"
    /\ Len(result.Errors) > 1 /\ ~result.Passed

\* C4: for every pair of ruleset lists and every backend name, Validate and
\* ValidateFiles complete and return a result with a nil error; they never
\* crash because the outputs differ.
C4_NeverCrashes ==
    ValidatorCalled => (pc = "returned" /\ err = Nil)

\* a ruleset with the code snippet of every incident blanked
StripIncidents(v) ==
    [v EXCEPT !.Incidents =
        [n \in 1..Len(v.Incidents) |-> [v.Incidents[n] EXCEPT !.CodeSnip = <<>>]]]
StripSnippets(rs) ==
    [rs EXCEPT !.Violations = [k \in DOMAIN rs.Violations |-> StripIncidents(rs.Violations[k])],
               !.Insights = [k \in DOMAIN rs.Insights |-> StripIncidents(rs.Insights[k])]]

\* expected and actual are the same but for the code snippets of incidents
OnlySnippetsDiffer ==
    /\ Len(expected) = Len(actual)
    /\ expected # actual
    /\ \A n \in 1..Len(expected) : StripSnippets(expected[n]) = StripSnippets(actual[n])

\* C5: when expected and actual are identical except for the code snippet of
\* an incident (different, or absent on one side), ValidateFiles with backend
\* "tackle-hub" passes.
C5_SnippetTolerance ==
    (/\ pc # "start" /\ op = "ValidateFiles"
     /\ targetType = "tackle-hub" /\ testDir = <<"/", "t">>
     /\ OnlySnippetsDiffer)
    => (pc = "returned" /\ result.Passed)

\* the rule ids of the n-th expected ruleset's field (Violations or Insights)
\* that the m-th actual ruleset does not hold
MissingRules(field, n, m) ==
    IF field = "Violations"
    THEN DOMAIN expected[n].Violations \ DOMAIN actual[m].Violations
    ELSE DOMAIN expected[n].Insights \ DOMAIN actual[m].Insights

\* the errors hold a field-level error with that header for the violation v
FieldLevelReported(header, v) ==
    \E m \in 1..Len(result.Errors) :
        /\ result.Errors[m].Message.format = header
        /\ result.Errors[m].Expected = v

\* C7: for every expected violation (or insight) whose rule id the same-named
\* actual ruleset does not hold, whatever its fields are, validation fails and
\* the errors hold a "Did not find violations" (or insights) error for it.
C7_MissingViolationDetected ==
    (ValidatorCalled /\ targetType \in KnownBackends) =>
        \A n \in 1..Len(expected), m \in 1..Len(actual) :
            expected[n].Name = actual[m].Name =>
                /\ \A k \in MissingRules("Violations", n, m) :
                       /\ pc = "returned" /\ ~result.Passed
                       /\ FieldLevelReported("Did not find violations\n\t",
                                             expected[n].Violations[k])
                /\ \A k \in MissingRules("Insights", n, m) :
                       /\ pc = "returned" /\ ~result.Passed
                       /\ FieldLevelReported("Did not find Insights\n\t",
                                             expected[n].Insights[k])

-----------------------------------------------------------------------------
(* Properties of compareViolation, checked under SpecViolation             *)

\* the violation v with its incidents in the order perm
PermuteIncidents(v, perm) ==
    [v EXCEPT !.Incidents = [n \in 1..Len(v.Incidents) |-> v.Incidents[perm[n]]]]

\* the kind of each error of a list
Formats(errs) == [n \in 1..Len(errs) |-> errs[n].Message.format]

\* C6: for both comparers, permuting the Incidents of the actual violation
\* changes neither the expected incidents reported missing nor the verdict
\* of compareViolation.
C6_OrderIndependent ==
    (pc # "start" /\ op = "compareViolation") =>
        \A perm \in Permutations(1..Len(vactual.Incidents)) :
            LET cmp == getComparer(targetType)
                permuted == PermuteIncidents(vactual, perm)
                r == compareViolation(cmp, testDir, vexpected, permuted)
            IN  /\ r.panic = (pc = "panicked")
                /\ r.ok = vfound
                /\ Formats(r.errs) = Formats(verrors)
                /\ missingIncidents(cmp, testDir, vexpected, permuted)
                     = missingIncidents(cmp, testDir, vexpected, vactual)

\* the one expected incident is found, and only the second of two different
\* actual incidents satisfies it
C6_Witness ==
    /\ pc = "returned" /\ op = "compareViolation"
    /\ Len(vexpected.Incidents) = 1 /\ Len(vactual.Incidents) = 2
    /\ vactual.Incidents[1] # vactual.Incidents[2]
    /\ ~vfound
    /\ LET row == StepTable[getComparer(targetType), testDir][vexpected.Incidents[1]]
       IN  row[vactual.Incidents[1]] = "continue" /\ row[vactual.Incidents[2]] = "found"

-----------------------------------------------------------------------------
(* Properties of ParseLabelSelector, checked under SpecLabels              *)

\* the labels of a slice, as a set
LabelSet(sl) == {sl.elems[n] : n \in 1..Len(sl.elems)}

\* C8: for every selector, the Included and Excluded labels ParseLabelSelector
\* returns are disjoint and neither holds an empty string.
C8_DisjointNonEmpty ==
    (pc = "returned" /\ op = "ParseLabelSelector") =>
        /\ LabelSet(labels.Included) \cap LabelSet(labels.Excluded) = {}
        /\ <<>> \notin LabelSet(labels.Included) \cup LabelSet(labels.Excluded)

\* the non-empty whitespace-trimmed terms of a selector, in order of appearance
TermsOf(s) ==
    LET parts == Split(s, <<"|", "|">>)
    IN  SelectSeq([n \in 1..Len(parts) |-> TrimSpace(parts[n])], LAMBDA t : t # <<>>)

\* the terms that do not start with "!", unchanged
IncludedTerms(s) == SelectSeq(TermsOf(s), LAMBDA t : Head(t) # "!")

\* the terms that start with "!", without it and the whitespace after it
ExcludedTerms(s) ==
    LET marked == SelectSeq(TermsOf(s), LAMBDA t : Head(t) = "!")
    IN  [n \in 1..Len(marked) |-> TrimLeft(Tail(marked[n]))]

\* the selector with whitespace added in front, behind, and after a leading "!"
Padded(s) ==
    {<<" ">> \o s, s \o <<"\t">>}
    \cup (IF s # <<>> /\ Head(s) = "!" THEN {<<"!", " ">> \o Tail(s)} ELSE {})

\* whitespace around the selector and after "!" does not change the result,
\* and the two slices are never nil
WhitespaceAndNil ==
    /\ \A t \in Padded(selector) : ParseLabelSelector(t) = labels
    /\ ~labels.Included.isNil /\ ~labels.Excluded.isNil

\* C9 as stated: every non-empty trimmed term goes, in order, to Excluded
\* (without its "!" and the whitespace after it) when it starts with "!" and
\* to Included otherwise; whitespace does not matter; the slices are not nil.
C9_EveryTermPlaced ==
    (pc = "returned" /\ op = "ParseLabelSelector") =>
        /\ labels.Included.elems = IncludedTerms(selector)
        /\ labels.Excluded.elems = ExcludedTerms(selector)
        /\ WhitespaceAndNil

\* C9: as C9_EveryTermPlaced, except that a term of which nothing remains
\* once "!" and whitespace are removed is dropped.
C9_EmptyExclusionDropped ==
    (pc = "returned" /\ op = "ParseLabelSelector") =>
        /\ labels.Included.elems = IncludedTerms(selector)
        /\ labels.Excluded.elems = SelectSeq(ExcludedTerms(selector), LAMBDA t : t # <<>>)
        /\ WhitespaceAndNil

\* a selector with whitespace after "!" that yields an included and an
\* excluded label
C9_Witness ==
    /\ pc = "returned" /\ op = "ParseLabelSelector"
    /\ Len(labels.Included.elems) = 1 /\ Len(labels.Excluded.elems) = 1
    /\ \E n \in 1..(Len(selector) - 1) : selector[n] = "!" /\ selector[n + 1] \in Whitespace

-----------------------------------------------------------------------------
(* Properties of buildArgs, checked under SpecArgs                         *)

\* the positions of "--maven-settings" in args
MavenSettingsAt == {n \in 1..Len(args) : args[n] = "--maven-settings"}

\* C10: the arguments hold "--maven-settings" if and only if the settings
\* value is not empty, and then the value is the next argument.
C10_MavenSettings ==
    (pc = "returned" /\ op = "buildArgs") =>
        /\ (MavenSettingsAt # {}) <=> (mavenSettings # "")
        /\ \A n \in MavenSettingsAt : n < Len(args) /\ args[n + 1] = mavenSettings

\* a call with a settings value, in source-only mode
C10_Witness ==
    /\ pc = "returned" /\ op = "buildArgs"
    /\ mavenSettings # "" /\ MavenSettingsAt # {}
    /\ analysis.AnalysisMode = SourceOnlyAnalysisMode

\* the positions of "--mode" in args
ModeAt == {n \in 1..Len(args) : args[n] = "--mode"}

\* C11: for every analysis configuration, whatever its AnalysisMode (also an
\* unset one), the arguments start with "analyze", hold exactly one "--mode"
\* followed by "source-only" or "full", and end with "--run-local=false",
\* "--overwrite".
C11_ArgumentFrame ==
    (pc = "returned" /\ op = "buildArgs") =>
        /\ Len(args) >= 3
        /\ args[1] = "analyze"
        /\ Cardinality(ModeAt) = 1
        /\ \A n \in ModeAt : n < Len(args) /\ args[n + 1] \in {"source-only", "full"}
        /\ args[Len(args) - 1] = "--run-local=false"
        /\ args[Len(args)] = "--overwrite"

-----------------------------------------------------------------------------
(* Properties of prepareInput, checked under SpecInput                     *)

\* prepareInput has returned
InputPrepared == pc = "returned" /\ op = "prepareInput"

\* the extension is .jar, .war or .ear, whatever the case of its letters
BinaryExtension(app) ==
    \E n \in 1..Len(app) :
        /\ ToLower(SubSeq(app, n, Len(app))) \in {JarExt, WarExt, EarExt}
        /\ \A m \in (n + 1)..Len(app) : app[m] \notin {".", "/"}

\* the ssh-style form user@host: with a user and a host
SshForm(app) ==
    \E at \in 2..Len(app) : \E colon \in (at + 2)..Len(app) :
        /\ app[at] = "@" /\ app[colon] = ":"
        /\ \A n \in 1..(colon - 1) : n # at => app[n] \notin {"@", ":", "/"}

\* the class of a reference, in the stated priority order, for a given
\* recognition of the ssh-style form
ClassOf(app, ssh) ==
    IF BinaryExtension(app) THEN "binary"
    ELSE IF HasPrefix(app, BinaryPrefix) THEN "legacy"
    ELSE IF HasPrefix(app, HttpPrefix) \/ HasPrefix(app, HttpsPrefix) \/ ssh THEN "git"
    ELSE "local"

C15_LegacyReference ==
    (InputPrepared /\ HasPrefix(application, BinaryPrefix)) =>
        /\ prepared.kind = "legacy"
        /\ prepared.path = SubSeq(application, Len(BinaryPrefix) + 1, Len(application))
        /\ prepared.err = Nil

\* what follows the first "#" of a reference
AfterHash(app) == SubSeq(app, Index(app, <<"#">>) + 1, Len(app))

\* C16: a git reference is split at its first "#" into URL and remainder and
\* the remainder at its first "/" into ref and subpath: the URL holds no "#"
\* and the ref no "/"; without "#" the URL is the reference and ref and
\* subpath are empty; without "/" in the remainder the ref is the remainder
\* and the subpath is empty; otherwise URL, "#", ref, "/", subpath make up the
\* reference.
C16_GitReferenceParts ==
    (InputPrepared /\ prepared.kind = "git") =>
        /\ ~Contains(git.url, <<"#">>) /\ ~Contains(git.ref, Slash)
        /\ ~Contains(application, <<"#">>) =>
               git = [url |-> application, ref |-> <<>>, path |-> <<>>]
        /\ (Contains(application, <<"#">>) /\ ~Contains(AfterHash(application), Slash)) =>
               /\ git.url \o <<"#">> \o git.ref = application
               /\ git.path = <<>>
        /\ (Contains(application, <<"#">>) /\ Contains(AfterHash(application), Slash)) =>
               git.url \o <<"#">> \o git.ref \o Slash \o git.path = application

\* a reference with a ref and a subpath, both with more "#" or "/" to come
C16_Witness ==
    /\ InputPrepared /\ prepared.kind = "git"
    /\ git.ref # <<>> /\ git.path # <<>>
    /\ Contains(git.path, Slash) \/ Contains(git.path, <<"#">>)

\* the call materialises a git reference
GitReference == ~IsBinaryFile(application) /\ isGitURL(application)

\* C17: whenever the source folder exists, prepareInput of a git reference
\* starts no git clone, also when the reference names a subpath; a run after
\* a run that succeeded starts no clone and returns the same input path.
C17_NoCloneWhenSourceExists ==
    [][(GitReference /\ CloneDir(testDir) \in fs) =>
           /\ commands' = <<>>
           /\ (InputPrepared /\ prepared.err = Nil) => prepared' = prepared]_vars

-----------------------------------------------------------------------------
(* Properties of KantraTarget.Execute, checked under SpecExecute           *)

\* the commands started so far with the given program
CommandsOf(name) == {n \in 1..Len(commands) : commands[n].name = name}

\* the argument is one of the arguments of command n
HasArgument(n, argument) ==
    \E k \in 1..Len(commands[n].args) : commands[n].args[k] = argument

\* C12: for a test with RequireMavenSettings = false, Execute invokes the
\* binary without "--maven-settings", also when the target has a settings
\* path configured.
C12_SettingsOnlyWhenRequired ==
    \A n \in CommandsOf(BinaryPath) :
        HasArgument(n, "--maven-settings") => test.RequireMavenSettings

\* the step was performed
Performed(step) == \E n \in 1..Len(steps) : steps[n] = step

\* Execute has returned
ExecuteReturned == pc = "returned" /\ op = "Execute"

\* C13: the steps of Execute are performed in the order precondition, test
\* directory, work directory, input, output directory, invocation; nothing a
\* step does is there before the step is performed; Execute returns an error
\* with no result, or no error and a result after all six steps; and when
\* the test requires maven settings and none is configured, Execute returns
\* an error after the precondition alone, with no directory made and no
\* command started.
C13_FixedOrder ==
    /\ Len(steps) <= Len(ExecuteOrder)
    /\ \A n \in 1..Len(steps) : steps[n] = ExecuteOrder[n]
    /\ ~Performed("workdir") => WorkDir \notin fs
    /\ ~Performed("input") => CommandsOf("git") = {}
    /\ ~Performed("output") => OutputDir \notin fs
    /\ ~Performed("invoke") => CommandsOf(BinaryPath) = {}
    /\ ExecuteReturned =>
           IF execution.err # Nil THEN execution.result.isNil
           ELSE steps = ExecuteOrder /\ ~execution.result.isNil
    /\ (ExecuteReturned /\ test.RequireMavenSettings /\ mavenSettings = "") =>
           /\ steps = <<"precondition">>
           /\ execution.err # Nil
           /\ commands = <<>> /\ WorkDir \notin fs /\ OutputDir \notin fs

\* the clone failed: the work directory is there, the output directory is
\* not, and the binary was not invoked
C13_Witness ==
    /\ ExecuteReturned
    /\ execution.err = "failed to prepare input"
    /\ CommandsOf("git") # {} /\ WorkDir \in fs

-----------------------------------------------------------------------------
(* Properties of NewKantraTarget, checked under SpecTarget                 *)

\* NewKantraTarget has returned
TargetReturned == pc \in {"returned", "named"}

\* a binary path is configured
Configured == ~cfg.isNil /\ cfg.BinaryPath # ""

\* the target holds the configured maven settings, and its name is "kantra"
SettingsAndName ==
    /\ target.mavenSettings = (IF cfg.isNil THEN "" ELSE cfg.MavenSettings)
    /\ pc = "named" => target.name = "kantra"

\* C18 as stated: the binary is the configured path when one is given and
\* otherwise the one found in PATH; an error and no target are returned when
\* that is not a usable executable; on success the name is "kantra" and the
\* maven settings are the configured ones, empty for a nil config.
C18_UsableBinary ==
    TargetReturned =>
        IF (IF Configured THEN cfg.BinaryPath ELSE LookPath(executables)) \in executables
        THEN /\ ~target.isNil /\ target.err = Nil
             /\ target.binaryPath = (IF Configured THEN cfg.BinaryPath
                                     ELSE LookPath(executables))
             /\ SettingsAndName
        ELSE target.isNil /\ target.err # Nil

\* C18 amended: a configured path is taken as it is; an error and no target
\* are returned when no path is configured and PATH holds no kantra.
C18_ConfiguredOrFound ==
    TargetReturned =>
        IF Configured \/ LookPath(executables) # ""
        THEN /\ ~target.isNil /\ target.err = Nil
             /\ target.binaryPath = (IF Configured THEN cfg.BinaryPath
                                     ELSE LookPath(executables))
             /\ SettingsAndName
        ELSE target.isNil /\ target.err # Nil

\* a configured path that is no executable, with a kantra in PATH, and the
\* name asked of the target
C18_Witness ==
    /\ pc = "named" /\ Configured
    /\ cfg.BinaryPath \notin executables /\ PathKantra \in executables
    /\ target.binaryPath = cfg.BinaryPath /\ target.mavenSettings # ""

-----------------------------------------------------------------------------
(* Properties of the task polling, checked under SpecPoll                  *)

\* the states in which the task is not finished
NonTerminal ==
    {TaskStateCreated, TaskStateReady, TaskStatePending, TaskStatePostponed,
     TaskStateRunning}

\* the poller waits with n polls made, the last one of a non-terminal state
WaitsAfter(n) == pc = "waiting" /\ poll.polls = n /\ poll.observed \in NonTerminal

\* C19: an observation of Created, Ready, Pending, Postponed or Running does
\* not end the run, and is followed by another poll unless the cancellation
\* or the deadline comes first; success is returned only with Succeeded as
\* the last observation and a task failure only with Failed; Postponed is
\* never returned as a failure.
C19_PollsUntilTerminal ==
    /\ [](/\ poll.outcome = "succeeded" => poll.observed = TaskStateSucceeded
          /\ poll.outcome = "failed" => poll.observed = TaskStateFailed
          /\ poll.observed \in NonTerminal => poll.outcome \in {"", "timeout"}
          /\ (poll.observed \in NonTerminal /\ poll.outcome = "") => pc = "waiting")
    /\ \A n \in 0..MaxPolls :
          WaitsAfter(n) ~> (poll.polls = n + 1 \/ poll.outcome = "timeout")

\* the task was seen postponed and the run succeeded later
C19_Witness ==
    /\ pc = "returned" /\ poll.outcome = "succeeded"
    /\ TaskStatePostponed \in poll.seen /\ TaskStatePending \in poll.seen

\* C20: once the context is cancelled or the deadline has passed no poll is
\* issued any more, and the run ends; it ends with the timeout error, which
\* is not the error of a Failed task, and with no rulesets.
C20_AbortsOnCancellation ==
    /\ [][poll.ctx # "live" => poll'.polls = poll.polls]_vars
    /\ []((pc = "returned" /\ poll.ctx # "live") =>
              /\ poll.outcome = "timeout" /\ poll.err = TimeoutError
              /\ poll.err # FailedError /\ poll.rulesets = Nil)
    /\ [](poll.outcome = "failed" => poll.err = FailedError)
    /\ (pc = "waiting" /\ poll.ctx # "live") ~> (pc = "returned" /\ poll.outcome = "timeout")

\* a run cancelled after a poll, while the task was running
C20_Witness ==
    /\ pc = "returned" /\ poll.ctx = "cancelled" /\ poll.outcome = "timeout"
    /\ poll.polls > 0 /\ task = TaskStateRunning

-----------------------------------------------------------------------------
(* Properties of the two violation comparers, checked under SpecViolation  *)

\* compareViolation was called
ViolationCompared == pc # "start" /\ op = "compareViolation"

\* the incidents of both violations
BothIncidents == vexpected.Incidents \o vactual.Incidents

\* all incidents of both violations carry the same code snippet, or none
SameSnippets ==
    \A n, m \in 1..Len(BothIncidents) :
        BothIncidents[n].CodeSnip = BothIncidents[m].CodeSnip

\* the two comparers crash alike, agree on whether the violation has an error
\* and on the expected incidents that are unmatched
ComparersAgree(k, t) ==
    /\ k.panic = t.panic
    /\ k.ok = t.ok
    /\ missingIncidents("kantra", testDir, vexpected, vactual)
         = missingIncidents("tackle2Hub", testDir, vexpected, vactual)

\* C23: for every pair of violations whose incidents all carry the same code
\* snippet or none, also with incidents that have an empty URI on both sides,
\* the tackle-hub comparer and the base comparer both return, agree on whether
\* the violation has an error and on which expected incidents are unmatched.
C23_HubDiffersBySnippetOnly ==
    (ViolationCompared /\ SameSnippets) =>
        /\ pc = "returned"
        /\ ComparersAgree(compareViolation("kantra", testDir, vexpected, vactual),
                          compareViolation("tackle2Hub", testDir, vexpected, vactual))

\* the errors of compareViolation that are about incidents
IncidentErrors ==
    SelectSeq(verrors, LAMBDA e : e.Message.format \in {"Missing %d incident(s)",
                                                        "Did not find expected incident: %v"})

\* the expected incidents the comparer of the call found no actual incident for
Unmatched == missingIncidents(getComparer(targetType), testDir, vexpected, vactual)

\* C26: for each comparer, compareViolation returns at most one error about
\* incidents, however many expected incidents are unmatched, and the count it
\* carries is the number of unmatched expected incidents.
C26_OneConsolidatedError ==
    (ViolationCompared /\ pc = "returned") =>
        /\ Len(IncidentErrors) <= 1
        /\ Len(IncidentErrors) = 1 <=> Len(Unmatched) > 0
        /\ \A n \in 1..Len(IncidentErrors) :
               /\ IncidentErrors[n].Message.format = "Missing %d incident(s)"
               /\ IncidentErrors[n].Message.args[1] = Len(Unmatched)

\* <testDir>/source/, the folder the fixtures name their files under
SourcePrefix == Join(testDir, SourceDir) \o Slash

\* the incident names a file under <testDir>/source
IsUnderSource(i) ==
    /\ i.URI.scheme = "file"
    /\ HasPrefix(i.URI.path, SourcePrefix)
    /\ Len(i.URI.path) > Len(SourcePrefix)

\* the path of that file relative to <testDir>/source
RelativePath(i) == SubSeq(i.URI.path, Len(SourcePrefix) + 1, Len(i.URI.path))

\* the actual incident names a file whose path contains the relative path of
\* the expected one
PathContains(i, ai) ==
    ai.URI.scheme = "file" /\ Contains(ai.URI.path, RelativePath(i))

\* the two incidents have equal messages, line numbers and variables, and
\* equal code snippets where the comparer of the call requires them
SameButPath(i, ai) ==
    /\ i.Message = ai.Message
    /\ DeepEqualIntPtr(i.LineNumber, ai.LineNumber)
    /\ i.Variables = ai.Variables
    /\ getComparer(targetType) = "kantra" => TrimSpace(i.CodeSnip) = TrimSpace(ai.CodeSnip)

\* the n-th expected incident was matched by an actual incident
Matched(n) ==
    IncidentOutcomes(getComparer(targetType), testDir, vexpected, vactual)[n] = "found"

\* C27: an expected incident whose file lies at relative path P under
\* <testDir>/source is matched when some actual incident has a file path that
\* contains P and equal message, line number and variables (and snippet, for
\* the base comparer), wherever the source tree is mounted; it is not matched
\* when no actual incident has a path that contains P.
C27_PathReconciliation ==
    (ViolationCompared /\ pc = "returned") =>
        \A n \in 1..Len(vexpected.Incidents) :
            IsUnderSource(vexpected.Incidents[n]) =>
                /\ (\E m \in 1..Len(vactual.Incidents) :
                       /\ PathContains(vexpected.Incidents[n], vactual.Incidents[m])
                       /\ SameButPath(vexpected.Incidents[n], vactual.Incidents[m]))
                   => Matched(n)
                /\ (\A m \in 1..Len(vactual.Incidents) :
                       ~PathContains(vexpected.Incidents[n], vactual.Incidents[m]))
                   => ~Matched(n)

\* the two incidents agree on path, message, line number and variables
AgreeButSnippet(i, ai) ==
    /\ IsUnderSource(i) /\ PathContains(i, ai)
    /\ i.Message = ai.Message
    /\ DeepEqualIntPtr(i.LineNumber, ai.LineNumber)
    /\ i.Variables = ai.Variables

\* one pass of the base comparer's loop, for each pair of incidents of the call
BaseStep(n, m) ==
    kantraIncidentStep(testDir, vexpected.Incidents[n], vactual.Incidents[m])

\* the same pass with the code snippets of both incidents left out
BaseStepNoSnippet(n, m) ==
    kantraIncidentStep(testDir, [vexpected.Incidents[n] EXCEPT !.CodeSnip = <<>>],
                       [vactual.Incidents[m] EXCEPT !.CodeSnip = <<>>])

\* the snippets of the pair are equal once surrounding whitespace is trimmed
SnippetsEqual(n, m) ==
    TrimSpace(vexpected.Incidents[n].CodeSnip) = TrimSpace(vactual.Incidents[m].CodeSnip)

\* C28 as stated: under the base comparer two incidents that agree on path,
\* message, line number and variables match when either has an empty code
\* snippet, and do not match when both have snippets that differ after
\* trimming.
C28_SnippetWhenBothProvide ==
    (ViolationCompared /\ targetType = "kantra") =>
        \A n \in 1..Len(vexpected.Incidents), m \in 1..Len(vactual.Incidents) :
            AgreeButSnippet(vexpected.Incidents[n], vactual.Incidents[m]) =>
                /\ (vexpected.Incidents[n].CodeSnip = <<>>
                    \/ vactual.Incidents[m].CodeSnip = <<>>) => BaseStep(n, m) = "found"
                /\ (/\ vexpected.Incidents[n].CodeSnip # <<>>
                    /\ vactual.Incidents[m].CodeSnip # <<>>
                    /\ ~SnippetsEqual(n, m)) => BaseStep(n, m) # "found"

\* C28 amended: under the base comparer two incidents whose code snippets
\* differ after trimming never match, also when one of the two is empty; when
\* the trimmed snippets are equal the snippets do not matter.
C28_SnippetAlways ==
    (ViolationCompared /\ targetType = "kantra") =>
        \A n \in 1..Len(vexpected.Incidents), m \in 1..Len(vactual.Incidents) :
            IF SnippetsEqual(n, m) THEN BaseStep(n, m) = BaseStepNoSnippet(n, m)
            ELSE BaseStep(n, m) # "found"

\* an expected incident without a snippet is reported missing although the
\* only actual incident differs from it in nothing but its snippet, and an
\* incident whose snippet differs in whitespace alone is matched
C28_Witness ==
    /\ ViolationCompared /\ targetType = "kantra" /\ testDir = <<"/", "t">>
    /\ Len(vexpected.Incidents) = 2 /\ Len(vactual.Incidents) = 1
    /\ AgreeButSnippet(vexpected.Incidents[1], vactual.Incidents[1])
    /\ vexpected.Incidents[1].CodeSnip = <<>> /\ vactual.Incidents[1].CodeSnip # <<>>
    /\ BaseStep(1, 1) = "continue"
    /\ vexpected.Incidents[2].CodeSnip # vactual.Incidents[1].CodeSnip
    /\ BaseStep(2, 1) = "found"

\* the actual incidents that satisfy the n-th expected incident on their own
Satisfying(n) ==
    {m \in 1..Len(vactual.Incidents) :
        StepTable[getComparer(targetType), testDir][vexpected.Incidents[n]][vactual.Incidents[m]]
            = "found"}

\* the expected incidents no actual incident satisfies
Unsatisfied == {n \in 1..Len(vexpected.Incidents) : Satisfying(n) = {}}

\* the number of expected incidents the returned errors report as missing
MissingReported ==
    IF IncidentErrors = <<>> THEN 0
    ELSE IF getComparer(targetType) = "kantra" THEN IncidentErrors[1].Message.args[1]
    ELSE Len(IncidentErrors)

\* C29: incident matching is existence matching without consumption: the
\* expected incidents reported missing are exactly those that no actual
\* incident satisfies, so identical expected incidents are all satisfied by a
\* single matching actual incident and none of them is reported missing.
C29_NoConsumption ==
    (ViolationCompared /\ pc = "returned") =>
        /\ MissingReported = Cardinality(Unsatisfied)
        /\ \A n, k \in 1..Len(vexpected.Incidents) :
               (vexpected.Incidents[n] = vexpected.Incidents[k] /\ Satisfying(n) # {})
                   => Len(Unmatched) = Cardinality(Unsatisfied \ {n, k})

\* two identical expected incidents, both satisfied by the only actual incident
C29_Witness ==
    /\ ViolationCompared /\ pc = "returned"
    /\ Len(vexpected.Incidents) = 2 /\ Len(vactual.Incidents) = 1
    /\ vexpected.Incidents[1] = vexpected.Incidents[2]
    /\ Satisfying(1) = {1}
    /\ IncidentErrors = <<>>

-----------------------------------------------------------------------------
(* Properties of the field checks of compareViolation, checked under       *)
(* SpecFields                                                              *)

\* the returned errors hold one of the given format for the given value
Reported(format, value) ==
    \E k \in 1..Len(verrors) :
        /\ verrors[k].Message.format = format
        /\ verrors[k].Message.args[1] = value

\* some actual link has the title of the link
TitleFound(l) == \E m \in 1..Len(vactual.Links) : vactual.Links[m].Title = l.Title

\* C24: links are matched by title: compareViolation reports a link error
\* for an expected link if and only if no actual link has the same title.
C24_LinksByTitle ==
    (ViolationCompared /\ pc = "returned") =>
        \A n \in 1..Len(vexpected.Links) :
            Reported("Did not find expected links: %v", vexpected.Links[n])
                <=> ~TitleFound(vexpected.Links[n])

\* C25: compareViolation reports a category error if and only if the
\* expected and actual category values differ, and an effort error if and
\* only if the effort values differ, wherever the values are allocated and
\* whatever the other fields hold.
C25_CategoryEffortByValue ==
    (ViolationCompared /\ pc = "returned") =>
        /\ Reported("Did not find expected category: %v", vexpected.Category)
               <=> ~DeepEqualCategoryPtr(vexpected.Category, vactual.Category)
        /\ Reported("Did not find expected effort: %v", vexpected.Effort)
               <=> ~DeepEqualIntPtr(vexpected.Effort, vactual.Effort)

-----------------------------------------------------------------------------
(* Comparer selection, checked under SpecComparer                          *)

\* the backend names that get the base comparer
BaseBackends == {"kantra", "tackle-ui", "kai-rpc", "vscode"}

\* what the base comparer's method returns for the arguments of the call
BaseReturns ==
    CASE call.method = "compareTag" -> compareTag(call.e, call.a)
      [] call.method = "compareErrors" -> compareErrors(call.e, call.a)
      [] call.method = "compareUnmatched" -> compareUnmatched(call.e, call.a)
      [] call.method = "compareSkipped" -> compareSkipped(call.e, call.a)
      [] call.method = "compareViolation" -> kantraCompareViolation(testDir, call.e, call.a)

\* C22: for the backend names "kantra", "tackle-ui", "kai-rpc" and "vscode"
\* every comparison is done by the base comparer; for "tackle-hub" the tag,
\* error, unmatched and skipped comparisons return what the base comparer
\* returns, on every input.
C22_ComparerSelection ==
    call.method # "" =>
        /\ targetType \in BaseBackends => call.returned = BaseReturns
        /\ (targetType = "tackle-hub" /\ call.method # "compareViolation")
               => call.returned = BaseReturns

\* the comparer of "tackle-hub" reported an unmatched rule as missing
C22_Witness ==
    /\ pc = "returned"
    /\ targetType = "tackle-hub" /\ call.method = "compareUnmatched"
    /\ call.a # <<>> /\ call.returned.ok

-----------------------------------------------------------------------------
(* Concurrent Execute calls, checked under SpecConcurrent                  *)

\* C21: two Execute calls running concurrently for tests with different
\* names never create, clone into or write to the same directory.
C21_ExclusiveDirectories ==
    \A r, q \in DOMAIN runs :
        (r # q /\ runs[r].name # runs[q].name) => runs[r].dirs \cap runs[q].dirs = {}

-----------------------------------------------------------------------------
(* Monotonicity of ValidateFiles in the actual rulesets, checked under Spec *)

\* every element of sequence xs is an element of sequence ys
Within(xs, ys) == \A n \in 1..Len(xs) : \E m \in 1..Len(ys) : xs[n] = ys[m]

\* violation w is violation v with links, labels or incidents added
ViolationExtends(v, w) ==
    /\ v.Description = w.Description
    /\ DeepEqualCategoryPtr(v.Category, w.Category)
    /\ DeepEqualIntPtr(v.Effort, w.Effort)
    /\ Within(v.Labels, w.Labels)
    /\ Within(v.Links, w.Links)
    /\ \A n \in 1..Len(v.Incidents) :
           \E m \in 1..Len(w.Incidents) : DeepEqualIncident(v.Incidents[n], w.Incidents[m])

\* map n holds every rule id of map m, with its violation or an extension of it
ViolationsExtend(m, n) ==
    /\ DOMAIN m \subseteq DOMAIN n
    /\ \A k \in DOMAIN m : ViolationExtends(m[k], n[k])

\* ruleset rs2 is ruleset rs with tags, error keys, violations, insights,
\* links, labels, incidents, unmatched ids or skipped ids added
Extends(rs, rs2) ==
    /\ rs.Name = rs2.Name
    /\ Within(rs.Tags, rs2.Tags)
    /\ DOMAIN rs.Errors \subseteq DOMAIN rs2.Errors
    /\ \A k \in DOMAIN rs.Errors : rs.Errors[k] = rs2.Errors[k]
    /\ ViolationsExtend(rs.Violations, rs2.Violations)
    /\ ViolationsExtend(rs.Insights, rs2.Insights)
    /\ Within(rs.Unmatched, rs2.Unmatched)
    /\ Within(rs.Skipped, rs2.Skipped)

\* the number of field-level errors with the given message among errors
FieldLevelCount(errors, format) ==
    Cardinality({m \in 1..Len(errors) :
                    errors[m].Path = "" /\ errors[m].Message.format = format})

\* the call with the actual rulesets act returns no field-level error that
\* the returned result does not hold
AddsNoError(r) ==
    /\ ~r.panic
    /\ \A m \in 1..Len(r.result.Errors) :
           r.result.Errors[m].Path = "" =>
               FieldLevelCount(r.result.Errors, r.result.Errors[m].Message.format)
                   <= FieldLevelCount(result.Errors, r.result.Errors[m].Message.format)

\* C30: validation is monotone in the actual result: after a call of
\* ValidateFiles for a known backend has returned, the same call with one
\* actual ruleset replaced by an extension of it returns no field-level
\* error the first call did not return.
C30_MonotoneInActual ==
    (pc = "returned" /\ op = "ValidateFiles" /\ targetType \in KnownBackends) =>
        \A n \in 1..Len(actual), rs2 \in RuleSetPool, order \in Orders :
            Extends(actual[n], rs2) =>
                AddsNoError(ValidateFiles(testDir, targetType,
                                          [actual EXCEPT ![n] = rs2], expected, order))

=============================================================================
